---- MODULE Spec2Model ----
(***************************************************************************)
(* A state-machine model of rust-derive-analysis:                          *)
(*   - GitHubClient::search_rust_repositories   (src/src/github.rs)        *)
(*   - RepositoryCache                          (src/src/repo_cache.rs)    *)
(*   - RepositoryProcessor::process and main    (src/src/parallel_...rs,   *)
(*                                               src/src/main.rs)          *)
(*   - RustParser                               (src/src/parser.rs)        *)
(*   - RepositoryProcessor::process_file_safely (src/src/parallel_...rs)   *)
(*   - ResultsPersistence::save_summary         (src/src/persistence.rs)   *)
(*   - RepositoryProcessor::process, same key   (src/src/parallel_...rs,   *)
(*                                               src/src/repo_cache.rs)    *)
(*   - RustFileProcessor::process_repository    (src/src/processor.rs)     *)
(* Each component has its own specification (SpecSearch, SpecCache,        *)
(* SpecPipeline, SpecParser, SpecPrefilter, SpecSummary, SpecSameKey,      *)
(* SpecShared); the variables of the other components stay parked at their *)
(* idle values.                                                            *)
(***************************************************************************)
EXTENDS Integers, Sequences, FiniteSets, TLC

VARIABLES
    \* ---- search_rust_repositories (github.rs) ----
    s_pc,          \* position: "off" | "call" | "loop" | "request" | "ok" | "err" | "panic"
    s_limit,       \* argument limit
    s_min_stars,   \* argument min_stars
    desired,       \* local desired
    per_page,      \* local per_page
    max_pages,     \* local max_pages
    page,          \* local page
    attempt,       \* local attempt
    repositories,  \* local repositories (the Vec returned on success)
    s_request,     \* the last request sent: [page, per_page, min_stars], or NoRequest
    s_sleep,       \* the sleeps of the last step, each [why, base]
    s_response,    \* the response received in the last step: [status, ratelimit, body]
    s_error,       \* the error returned, or NoError
    s_irregular,   \* number of irregular page responses received so far
    \* ---- RepositoryCache (repo_cache.rs) ----
    c_pc,              \* position of ensure_repository: "off" | "idle" | "count" | "size" | "clone"
    max_repositories,  \* config.max_repositories
    max_size_gb,       \* config.max_size_gb, in size units
    active_repos,      \* the map repo key -> path
    disk,              \* directories under cache_root: path -> [valid, size]
    c_key,             \* repo.full_name of the current (or last) call
    c_calls,           \* number of ensure_repository calls begun
    c_ret,             \* what the last call returned: [status, path]
    c_ran,             \* what the current (or last) call ran: [evict, valid, clone,
                       \* stale, retry, exit, stderr]
    c_started_empty,   \* whether active_repos was empty when the call began
    c_admitted,        \* the keys of active_repos in the order of their insertion
    \* ---- RepositoryProcessor::process and main (parallel_processor.rs, main.rs) ----
    m_pc,              \* position of main: "off" | "start" | "processing" | "aggregated"
                       \* | "json_saved" | "csv_saved" | "returned"
    tasks,             \* repository_tasks, each a repository profile
    p_next,            \* index of the next task the manager hands out
    w_pc,              \* per worker, position of process: "idle" | "ensure" | "scan" | "store"
    w_task,            \* per worker, index of the task being processed (0: none)
    w_result,          \* per worker, the RepositoryResult built by the scan
    results_storage,   \* the shared Vec<RepositoryResult>
    checkpoint,        \* derive_statements_incremental.json: [written, torn, content]
    ckpt_attempts,     \* number of save_to_json calls made for the checkpoint
    ckpt_last,         \* the derives handed to the last of these calls
    p_outcome,         \* per task, what process returned: [status, result]
    successful,        \* collector_stats.successful
    failed,            \* collector_stats.failed
    all_derives,       \* main's all_derives
    total_files_processed,  \* main's total_files_processed
    m_ret,             \* what main returned: "none" | "ok" | "err"
    m_reported,        \* whether main printed the completion message
    artifacts,         \* derive_statements.json, derive_statements.csv and
                       \* analysis_summary.json: [json, csv, summary], each a file
    \* ---- RustParser (parser.rs) ----
    r_content,         \* argument content: [text, bulk]
    r_path,            \* argument file_path
    r_extract,         \* what extract_derives did: [status, via, derives]
    r_text_only,       \* what extract_derives_text_only did: [status, via, derives]
    r_again,           \* what a second extract_derives call on the same arguments did
    \* ---- ResultsPersistence::save_summary (persistence.rs) ----
    u_derives,         \* argument derives: a sequence of [repository, derives]
    u_order,           \* the iteration orders of the two HashMaps: [derives, repos]
    u_summary,         \* what save_summary did: [status, summary]
    \* ---- RepositoryProcessor::process_file_safely (parallel_processor.rs) ----
    f_content,         \* argument content: [text, bulk]
    f_path,            \* argument file_path
    f_route,           \* what process_file_safely did: [tier, result]
    \* ---- RepositoryProcessor::process, workers on one key ----
    x_dir,             \* the key's target directory: "absent" | "invalid" | "partial"
                       \* | "complete"
    x_pc,              \* per worker: "off" | "check" | "remove" | "spawn" | "cloning"
                       \* | "scan" | "done" | "failed"
    x_seen,            \* per worker: the tree its scan enumerated
    x_left,            \* tasks for the key that no worker has taken yet
    \* ---- RustFileProcessor::process_repository (processor.rs) ----
    h_max,             \* config.max_repositories of the shared cache
    h_queue,           \* the tasks not yet taken
    h_map,             \* the shared cache's active_repos
    h_disk,            \* the directories under the cache root
    h_pc,              \* per worker: "off" | "idle" | "ensured" | "found" | "done" | "failed"
    h_path             \* per worker: repo_path

searchVars == <<s_pc, s_limit, s_min_stars, desired, per_page, max_pages, page,
                attempt, repositories, s_request, s_sleep, s_response, s_error,
                s_irregular>>

cacheVars == <<c_pc, max_repositories, max_size_gb, active_repos, disk, c_key,
               c_calls, c_ret, c_ran, c_started_empty, c_admitted>>

pipeVars == <<m_pc, tasks, p_next, w_pc, w_task, w_result, results_storage,
              checkpoint, ckpt_attempts, ckpt_last, p_outcome, successful, failed,
              all_derives, total_files_processed, m_ret, m_reported, artifacts>>

\* What the workers' steps leave alone of main's final export.
mainTail == <<m_ret, m_reported, artifacts>>

parserVars == <<r_content, r_path, r_extract, r_text_only, r_again>>

summaryVars == <<u_derives, u_order, u_summary>>

prefilterVars == <<f_content, f_path, f_route>>

sameKeyVars == <<x_dir, x_pc, x_seen, x_left>>

sharedVars == <<h_max, h_queue, h_map, h_disk, h_pc, h_path>>

vars == <<searchVars, cacheVars, pipeVars, parserVars, summaryVars, prefilterVars,
          sameKeyVars, sharedVars>>

\* What a step of one component leaves alone.
notSearch == <<cacheVars, pipeVars, parserVars, summaryVars, prefilterVars,
               sameKeyVars, sharedVars>>
notCache == <<searchVars, pipeVars, parserVars, summaryVars, prefilterVars,
              sameKeyVars, sharedVars>>
notPipe == <<searchVars, cacheVars, parserVars, summaryVars, prefilterVars,
             sameKeyVars, sharedVars>>
notParser == <<searchVars, cacheVars, pipeVars, summaryVars, prefilterVars,
               sameKeyVars, sharedVars>>
notSummary == <<searchVars, cacheVars, pipeVars, parserVars, prefilterVars,
                sameKeyVars, sharedVars>>
notPrefilter == <<searchVars, cacheVars, pipeVars, parserVars, summaryVars,
                  sameKeyVars, sharedVars>>
notSameKey == <<searchVars, cacheVars, pipeVars, parserVars, summaryVars, prefilterVars,
                sharedVars>>
notShared == <<searchVars, cacheVars, pipeVars, parserVars, summaryVars, prefilterVars,
               sameKeyVars>>

Min(a, b) == IF a <= b THEN a ELSE b
Max(a, b) == IF a >= b THEN a ELSE b

RECURSIVE Pow2(_)
Pow2(n) == IF n = 0 THEN 1 ELSE 2 * Pow2(n - 1)

(***************************************************************************)
(*                    search_rust_repositories                             *)
(***************************************************************************)

\* Program constants of github.rs.
SearchCap == 1000
PageSizeCap == 100
PageCap == 10
SizeGate == 10
BackoffCap == 6
InterPageDelayMs == 2200

\* Bounds of the model.
MaxSmallLimit == 3
MaxAttempt == 7
MaxIrregular == 1

LimitChoices == (0 .. MaxSmallLimit) \cup {PageSizeCap + 50, SearchCap + 1}
MinStarsChoices == {0, 100}
RetryAfterChoices ==
    {[kind |-> "absent", sec |-> 0], [kind |-> "unparsable", sec |-> 0],
     [kind |-> "seconds", sec |-> 120]}
ResetWaitChoices == {0, 5}

\* What a success response says in X-RateLimit-Remaining and X-RateLimit-Reset
\* (lines 91-93): remaining is "zero" when the header is present and parses to
\* 0; reset is "epoch" when the header is present and parses as u64, and wait
\* is then ts.saturating_sub(now_secs()).
RateLimitChoices ==
    {[remaining |-> "some", reset |-> "epoch", wait |-> w] : w \in ResetWaitChoices \ {0}}
    \cup {[remaining |-> "zero", reset |-> "epoch", wait |-> w] : w \in ResetWaitChoices}
    \cup {[remaining |-> "zero", reset |-> k, wait |-> 0] : k \in {"absent", "unparsable"}}

NoRequest == [page |-> 0, per_page |-> 0, min_stars |-> 0]
NoSleep == <<>>
NoRateLimit == [remaining |-> "none", reset |-> "none", wait |-> 0]
NoError == [kind |-> "none", status |-> 0, body |-> ""]

\* The statuses of a request that is not retried (line 120) and what
\* resp.text().await gives for their bodies: a text, or an error.
FatalStatuses == {422, 500}
BodyChoices == {[readable |-> TRUE, text |-> "Validation Failed"], [readable |-> FALSE, text |-> ""]}
NoBody == [readable |-> FALSE, text |-> ""]

\* A response as the loop sees it: resp.status(), the rate-limit headers, the
\* body and, for a body that parses, the number of items in it.
Response(status, rl, body, n) ==
    [status |-> status, ratelimit |-> rl, body |-> body, items |-> n]
NoResponse == Response(0, NoRateLimit, NoBody, 0)

\* One item of a page: the descriptor <<page, index>> and its size field.
Item(p, i, small) == [full_name |-> <<p, i>>, size |-> IF small /\ i = 1 THEN SizeGate ELSE SizeGate + 1]

\* The items of a response to a request for page p: n items, the first one at
\* the size gate when small.
PageItems(p, n, small) == [i \in 1 .. n |-> Item(p, i, small)]

\* The for loop over search_resp.items (lines 128-140): stop once desired is
\* reached, keep the items with size > 10. The items pushed are the first
\* desired - len of those that pass the gate, in order.
KeptItems(items) == SelectSeq(items, LAMBDA it : it.size > SizeGate)

\* The loop without its "if repositories.len() >= desired { break; }".
PushItems_NoBreak(repos, items, d) ==
    repos \o [i \in 1 .. Len(KeptItems(items)) |-> KeptItems(items)[i].full_name]

PushItems(repos, items, d) ==
    LET kept == KeptItems(items)
        take == Min(Max(d - Len(repos), 0), Len(kept))
    IN  repos \o [i \in 1 .. take |-> kept[i].full_name]

\* The backoff without attempt.min(6).
Backoff_Uncapped(a) == Pow2(a)

\* 2u64.saturating_pow(attempt.min(6))
Backoff(a) == Pow2(Min(a, BackoffCap))

\* let desired = limit.min(1000)
Desired(limit) == Min(limit, SearchCap)

\* let per_page = 100.min(desired)
PerPage(d) == Min(PageSizeCap, d)

\* A page bound of one page per descriptor wanted, and one more.
MaxPages_Loose(d, pp) == d + 1

\* let max_pages = ((desired + per_page - 1) / per_page).min(10), for per_page > 0
MaxPages(d, pp) == Min((d + pp - 1) \div pp, PageCap)

\* The outer loop's condition.
LoopCond == Len(repositories) < desired /\ page <= max_pages

SearchInit ==
    /\ s_pc = "call"
    /\ s_limit \in LimitChoices
    /\ s_min_stars \in (IF s_limit <= MaxSmallLimit THEN MinStarsChoices ELSE {0})
    /\ desired = 0
    /\ per_page = 0
    /\ max_pages = 0
    /\ page = 0
    /\ attempt = 0
    /\ repositories = <<>>
    /\ s_request = NoRequest
    /\ s_sleep = NoSleep
    /\ s_response = NoResponse
    /\ s_error = NoError
    /\ s_irregular = 0

SearchIdle ==
    /\ s_pc = "off"
    /\ s_limit = 0
    /\ s_min_stars = 0
    /\ desired = 0
    /\ per_page = 0
    /\ max_pages = 0
    /\ page = 0
    /\ attempt = 0
    /\ repositories = <<>>
    /\ s_request = NoRequest
    /\ s_sleep = NoSleep
    /\ s_response = NoResponse
    /\ s_error = NoError
    /\ s_irregular = 0

\* Lines 58-63. With limit = 0, per_page = 0: desired + per_page - 1 underflows
\* (a panic in a debug build, a wrap in a release build) and the division by
\* per_page then panics in every build.
SearchBegin ==
    /\ s_pc = "call"
    /\ desired' = Desired(s_limit)
    /\ per_page' = PerPage(desired')
    /\ IF per_page' = 0
       THEN /\ s_pc' = "panic"
            /\ UNCHANGED <<max_pages, page>>
       ELSE /\ s_pc' = "loop"
            /\ max_pages' = MaxPages(desired', per_page')
            /\ page' = 1
    /\ UNCHANGED <<s_limit, s_min_stars, attempt, repositories, s_request,
                   s_sleep, s_response, s_error, s_irregular>>
    /\ UNCHANGED notSearch

\* Line 65 true, lines 66-72: a page's retry loop starts with attempt = 0.
PageBegin ==
    /\ s_pc = "loop"
    /\ LoopCond
    /\ attempt' = 0
    /\ s_pc' = "request"
    /\ s_sleep' = NoSleep
    /\ s_response' = NoResponse
    /\ UNCHANGED <<s_limit, s_min_stars, desired, per_page, max_pages, page,
                   repositories, s_request, s_error, s_irregular>>
    /\ UNCHANGED notSearch

\* Line 65 false, lines 151-152.
SearchReturn ==
    /\ s_pc = "loop"
    /\ ~LoopCond
    /\ s_pc' = "ok"
    /\ s_sleep' = NoSleep
    /\ s_response' = NoResponse
    /\ UNCHANGED <<s_limit, s_min_stars, desired, per_page, max_pages, page,
                   attempt, repositories, s_request, s_error, s_irregular>>
    /\ UNCHANGED notSearch

\* A request that moves on by one page for every 403/429 received.
ThisRequest_Advanced ==
    [page |-> page + attempt, per_page |-> per_page, min_stars |-> s_min_stars]

\* Lines 74-84: the request of the current iteration of the retry loop.
ThisRequest == [page |-> page, per_page |-> per_page, min_stars |-> s_min_stars]

\* A loop that never takes a page for the last one.
ShortPage_Never(n) == FALSE

\* Line 142: if items_len < per_page { break; }
ShortPage(n) == n < per_page

\* No rate-limit sleep at all.
RateLimitSleep_None(rl) == <<>>

\* Lines 91-99: sleep jitter(wait * 1000) when both headers are present,
\* remaining parses to 0 and reset parses as u64.
RateLimitSleep(rl) ==
    IF rl.remaining = "zero" /\ rl.reset = "epoch"
    THEN <<[why |-> "ratelimit", base |-> rl.wait]>> ELSE <<>>

\* Lines 84-102, 125-149: a success response with n items and rate-limit
\* headers rl; json = FALSE is a body that does not parse (resp.json().await?).
RespSuccess(n, small, rl, json) ==
    /\ s_pc = "request"
    /\ s_request' = ThisRequest
    /\ s_response' = Response(200, rl, [readable |-> TRUE, text |-> IF json THEN "items" ELSE "other"],
                              IF json THEN n ELSE 0)
    /\ s_sleep' = RateLimitSleep(rl)
                  \o (IF json /\ ~ShortPage(n)
                      THEN <<[why |-> "interpage", base |-> InterPageDelayMs]>> ELSE <<>>)
    /\ IF ~json
       THEN /\ s_pc' = "err"
            /\ s_error' = [kind |-> "json", status |-> 200, body |-> ""]
            /\ UNCHANGED <<repositories, page>>
       ELSE /\ repositories' = PushItems(repositories, PageItems(page, n, small), desired)
            /\ IF ShortPage(n)
               THEN s_pc' = "ok" /\ page' = page
               ELSE s_pc' = "loop" /\ page' = page + 1
            /\ UNCHANGED s_error
    /\ UNCHANGED <<s_limit, s_min_stars, desired, per_page, max_pages, attempt>>
    /\ UNCHANGED notSearch

\* A success response of the shape the API documents: at most per_page items,
\* all above the size gate.
RespRegular ==
    \E n \in {0, per_page - 1, per_page} \cap Nat :
    \E rl \in RateLimitChoices :
        /\ RespSuccess(n, FALSE, rl, TRUE)
        /\ UNCHANGED s_irregular

\* A success response of another shape: more items than asked for, or an item
\* at the size gate, or a body that is not the expected JSON.
RespIrregular ==
    /\ s_irregular < MaxIrregular
    /\ s_irregular' = s_irregular + 1
    /\ \E n \in {per_page - 1, per_page, per_page + 1} \cap Nat :
       \E small \in BOOLEAN :
       \E json \in BOOLEAN :
           /\ (n > per_page \/ small \/ ~json)
           /\ ~(n > per_page /\ small)
           /\ RespSuccess(n, small, CHOOSE rl \in RateLimitChoices : rl.remaining = "some", json)

\* Lines 104-118: 403 or 429.
RespRetryable ==
    /\ s_pc = "request"
    /\ attempt < MaxAttempt
    /\ \E status \in {403, 429} :
       \E ra \in RetryAfterChoices :
           /\ s_request' = ThisRequest
           /\ attempt' = attempt + 1
           /\ s_response' = Response(status, NoRateLimit, NoBody, 0)
           /\ s_sleep' = IF ra.kind = "seconds"
                         THEN <<[why |-> "retryafter", base |-> ra.sec]>>
                         ELSE <<[why |-> "backoff", base |-> Backoff(attempt')]>>
    /\ UNCHANGED <<s_pc, s_limit, s_min_stars, desired, per_page, max_pages,
                   page, repositories, s_error, s_irregular>>
    /\ UNCHANGED notSearch

\* An error that carries the status only.
SearchFailed_NoBody(status, body) == [kind |-> "status", status |-> status, body |-> ""]

\* Lines 121-122: resp.text().await.unwrap_or_default() and
\* format!("Search failed ({}): {}", status, body).
SearchFailed(status, body) ==
    [kind |-> "status", status |-> status, body |-> IF body.readable THEN body.text ELSE ""]

\* Lines 120-122: any other status.
RespFatal ==
    /\ s_pc = "request"
    /\ \E status \in FatalStatuses :
       \E body \in BodyChoices :
           /\ s_request' = ThisRequest
           /\ s_response' = Response(status, NoRateLimit, body, 0)
           /\ s_error' = SearchFailed(status, body)
    /\ s_pc' = "err"
    /\ s_sleep' = NoSleep
    /\ UNCHANGED <<s_limit, s_min_stars, desired, per_page, max_pages, page,
                   attempt, repositories, s_irregular>>
    /\ UNCHANGED notSearch

\* Line 84: req.send().await? fails.
SendFails ==
    /\ s_pc = "request"
    /\ s_request' = ThisRequest
    /\ s_error' = [kind |-> "transport", status |-> 0, body |-> ""]
    /\ s_pc' = "err"
    /\ s_sleep' = NoSleep
    /\ s_response' = NoResponse
    /\ UNCHANGED <<s_limit, s_min_stars, desired, per_page, max_pages, page,
                   attempt, repositories, s_irregular>>
    /\ UNCHANGED notSearch

SearchNext ==
    \/ SearchBegin
    \/ PageBegin
    \/ SearchReturn
    \/ RespRegular
    \/ RespIrregular
    \/ RespRetryable
    \/ RespFatal
    \/ SendFails

(***************************************************************************)
(*                          RepositoryCache                                *)
(***************************************************************************)

\* Bounds of the model.
MaxRepos == 2
MaxSizeLimit == 2
MaxRepoSize == 2
MaxCalls == 4

\* Repository keys (full_name), as character sequences: a/b_c, a_b/c, x/y.
Keys == {<<"a", "/", "b", "_", "c">>, <<"a", "_", "b", "/", "c">>, <<"x", "/", "y">>}

\* repo_name.replace('/', "_").replace('\\', "_")
sanitize_repo_name(k) == [i \in 1 .. Len(k) |-> IF k[i] \in {"/", "\\"} THEN "_" ELSE k[i]]

\* repo_dir = cache_root.join(sanitize_repo_name(full_name))
RepoDir(k) == sanitize_repo_name(k)

Paths == {RepoDir(k) : k \in Keys}

EmptyMap == [x \in {} |-> 0]
MapPut(f, k, v) == [x \in DOMAIN f \cup {k} |-> IF x = k THEN v ELSE f[x]]
MapDrop(f, k) == [x \in DOMAIN f \ {k} |-> f[x]]

\* The sequence without the key.
Without(seq, k) == SelectSeq(seq, LAMBDA x : x # k)

\* path.exists()
PathExists(d, p) == p \in DOMAIN d

\* fs::remove_dir_all(path): ok = FALSE is the failure that is only logged.
RemoveDirAll(d, p, ok) == IF ok /\ p \in DOMAIN d THEN MapDrop(d, p) ELSE d

\* du -sb cache_root: the bytes of everything under the root.
RECURSIVE SumSizes(_, _)
SumSizes(d, ps) ==
    IF ps = {} THEN 0
    ELSE LET p == CHOOSE q \in ps : TRUE IN d[p].size + SumSizes(d, ps \ {p})

DiskSize(d) == SumSizes(d, DOMAIN d)

\* get_cache_size_gb: 0 when du exits non-zero.
get_cache_size_gb(d, duOk) == IF duOk THEN DiskSize(d) ELSE 0

\* A check that takes every directory for a working copy.
is_valid_git_repo_Always(d, p) == TRUE

\* is_valid_git_repo: .git exists and git status succeeds.
is_valid_git_repo(d, p) == d[p].valid

\* What ensure_repository returns: Ok(path), or Err with the error's kind
\* and message.
EnsureResult(status, path, message) == [status |-> status, path |-> path, message |-> message]
NoRet == EnsureResult("none", <<>>, "")

\* What a call ran: an eviction, the validity check, git clone; whether it
\* removed a stale mapping, whether it follows a failed clone of the same key
\* on this map, and how git clone ended ("none", "spawn_error", "zero",
\* "nonzero") with which stderr.
RanNothing ==
    [evict |-> FALSE, valid |-> FALSE, clone |-> FALSE, stale |-> FALSE,
     retry |-> FALSE, exit |-> "none", stderr |-> ""]

\* What git clone writes to stderr when it exits non-zero.
StderrChoices == {"fatal: repository not found", ""}

\* A clone error without the captured output.
GitCloneFailed_NoOutput(stderr) == "Git clone failed: "

\* Line 107: format!("Git clone failed: {}", stderr)
GitCloneFailed(stderr) == "Git clone failed: " \o stderr

\* The lookup that leaves a stale mapping in the map.
DropStale_Kept(map, k) == map

\* Lines 49-52: a mapping whose path is gone is removed.
DropStale(map, k) == IF k \in DOMAIN map THEN MapDrop(map, k) ELSE map

InitialDisks ==
    {EmptyMap} \cup
    {MapPut(EmptyMap, p, [valid |-> v, size |-> 1]) : p \in Paths, v \in BOOLEAN}

CacheInit ==
    /\ c_pc = "idle"
    /\ max_repositories \in 0 .. MaxRepos
    /\ max_size_gb \in 1 .. MaxSizeLimit
    /\ active_repos = EmptyMap
    /\ disk \in InitialDisks
    /\ c_key = <<>>
    /\ c_calls = 0
    /\ c_ret = NoRet
    /\ c_ran = RanNothing
    /\ c_started_empty = TRUE
    /\ c_admitted = <<>>

CacheIdle ==
    /\ c_pc = "off"
    /\ max_repositories = 0
    /\ max_size_gb = 0
    /\ active_repos = EmptyMap
    /\ disk = EmptyMap
    /\ c_key = <<>>
    /\ c_calls = 0
    /\ c_ret = NoRet
    /\ c_ran = RanNothing
    /\ c_started_empty = TRUE
    /\ c_admitted = <<>>

\* The lookup with the test of path.exists() inverted.
IsHit_Inverted(k) == k \in DOMAIN active_repos /\ ~PathExists(disk, active_repos[k])

\* Lines 45-48: the key is mapped and its path exists.
IsHit(k) == k \in DOMAIN active_repos /\ PathExists(disk, active_repos[k])

EnsureHit(k) ==
    /\ c_pc = "idle"
    /\ c_calls < MaxCalls
    /\ IsHit(k)
    /\ c_calls' = c_calls + 1
    /\ c_key' = k
    /\ c_ran' = RanNothing
    /\ c_started_empty' = (DOMAIN active_repos = {})
    /\ c_ret' = EnsureResult("ok", active_repos[k], "")
    /\ UNCHANGED <<c_pc, max_repositories, max_size_gb, active_repos, disk, c_admitted>>
    /\ UNCHANGED notCache

\* Lines 45-56: not mapped, or mapped to a path that is gone (the mapping is
\* removed); the call goes on to make_space_if_needed.
EnsureMiss(k) ==
    /\ c_pc = "idle"
    /\ c_calls < MaxCalls
    /\ ~IsHit(k)
    /\ c_calls' = c_calls + 1
    /\ c_key' = k
    /\ c_ran' = [RanNothing EXCEPT !.stale = k \in DOMAIN active_repos,
                                   !.retry = (c_ret.status = "git_error" /\ c_key = k)]
    /\ c_started_empty' = (DOMAIN active_repos = {})
    /\ active_repos' = DropStale(active_repos, k)
    /\ c_admitted' = Without(c_admitted, k)
    /\ c_pc' = "count"
    /\ UNCHANGED <<max_repositories, max_size_gb, disk, c_ret>>
    /\ UNCHANGED notCache

\* remove_oldest_repository: the first entry of the HashMap's iteration, which
\* is any entry; the directory removal may fail, the mapping goes anyway. On an
\* empty map nothing happens.
remove_oldest_repository ==
    IF DOMAIN active_repos = {}
    THEN UNCHANGED <<active_repos, disk, c_admitted>>
    ELSE \E k \in DOMAIN active_repos : \E ok \in BOOLEAN :
             /\ disk' = RemoveDirAll(disk, active_repos[k], ok)
             /\ active_repos' = MapDrop(active_repos, k)
             /\ c_admitted' = Without(c_admitted, k)

\* The count loop with > for >=.
CountCond_Strict == Cardinality(DOMAIN active_repos) > max_repositories

\* make_space_if_needed, lines 116-120: the count loop's condition.
CountCond == Cardinality(DOMAIN active_repos) >= max_repositories

CountEvict ==
    /\ c_pc = "count"
    /\ CountCond
    /\ remove_oldest_repository
    /\ c_ran' = [c_ran EXCEPT !.evict = TRUE]
    /\ UNCHANGED <<c_pc, max_repositories, max_size_gb, c_key, c_calls, c_ret,
                   c_started_empty>>
    /\ UNCHANGED notCache

CountDone ==
    /\ c_pc = "count"
    /\ ~CountCond
    /\ c_pc' = "size"
    /\ UNCHANGED <<max_repositories, max_size_gb, active_repos, disk, c_key,
                   c_calls, c_ret, c_ran, c_started_empty, c_admitted>>
    /\ UNCHANGED notCache

\* make_space_if_needed, lines 123-129: the size loop's condition.
SizeCond(duOk) ==
    get_cache_size_gb(disk, duOk) > max_size_gb /\ DOMAIN active_repos # {}

SizeEvict ==
    /\ c_pc = "size"
    /\ \E duOk \in BOOLEAN : SizeCond(duOk)
    /\ remove_oldest_repository
    /\ c_ran' = [c_ran EXCEPT !.evict = TRUE]
    /\ UNCHANGED <<c_pc, max_repositories, max_size_gb, c_key, c_calls, c_ret,
                   c_started_empty>>
    /\ UNCHANGED notCache

SizeDone ==
    /\ c_pc = "size"
    /\ \E duOk \in BOOLEAN : ~SizeCond(duOk)
    /\ c_pc' = "clone"
    /\ UNCHANGED <<max_repositories, max_size_gb, active_repos, disk, c_key,
                   c_calls, c_ret, c_ran, c_started_empty, c_admitted>>
    /\ UNCHANGED notCache

\* get_cache_size_gb fails to run du: ensure_repository returns the IoError.
SizeFails ==
    /\ c_pc = "size"
    /\ c_pc' = "idle"
    /\ c_ret' = EnsureResult("io_error", <<>>, "Failed to get cache size")
    /\ UNCHANGED <<max_repositories, max_size_gb, active_repos, disk, c_key,
                   c_calls, c_ran, c_started_empty, c_admitted>>
    /\ UNCHANGED notCache

\* clone_repository, lines 69-71: create_dir_all fails; it succeeds on a root
\* that is there, which it is when a directory is under it.
CreateDirFails ==
    /\ c_pc = "clone"
    /\ DOMAIN disk = {}
    /\ c_pc' = "idle"
    /\ c_ret' = EnsureResult("io_error", <<>>, "Failed to create cache directory")
    /\ UNCHANGED <<max_repositories, max_size_gb, active_repos, disk, c_key,
                   c_calls, c_ran, c_started_empty, c_admitted>>
    /\ UNCHANGED notCache

\* clone_repository, lines 73-77, then line 60: a valid working copy is there.
CloneReuse ==
    /\ c_pc = "clone"
    /\ PathExists(disk, RepoDir(c_key))
    /\ is_valid_git_repo(disk, RepoDir(c_key))
    /\ c_ran' = [c_ran EXCEPT !.valid = TRUE]
    /\ active_repos' = MapPut(active_repos, c_key, RepoDir(c_key))
    /\ c_admitted' = Append(Without(c_admitted, c_key), c_key)
    /\ c_ret' = EnsureResult("ok", RepoDir(c_key), "")
    /\ c_pc' = "idle"
    /\ UNCHANGED <<max_repositories, max_size_gb, disk, c_key, c_calls,
                   c_started_empty>>
    /\ UNCHANGED notCache

\* clone_repository, lines 73-86: no valid working copy is at repo_dir; a
\* directory that is there is removed first, and a failed removal is only logged.
NeedsClone == ~(PathExists(disk, RepoDir(c_key)) /\ is_valid_git_repo(disk, RepoDir(c_key)))

RemovalOutcomes == IF PathExists(disk, RepoDir(c_key)) THEN BOOLEAN ELSE {TRUE}

\* clone_repository, lines 79-112, then line 60: git clone exits with success
\* and leaves a working copy of the given size at repo_dir.
CloneFresh ==
    /\ c_pc = "clone"
    /\ NeedsClone
    /\ \E size \in 1 .. MaxRepoSize : \E rmOk \in RemovalOutcomes :
           disk' = MapPut(RemoveDirAll(disk, RepoDir(c_key), rmOk), RepoDir(c_key),
                          [valid |-> TRUE, size |-> size])
    /\ c_ran' = [c_ran EXCEPT !.valid = PathExists(disk, RepoDir(c_key)), !.clone = TRUE,
                              !.exit = "zero"]
    /\ active_repos' = MapPut(active_repos, c_key, RepoDir(c_key))
    /\ c_admitted' = Append(Without(c_admitted, c_key), c_key)
    /\ c_ret' = EnsureResult("ok", RepoDir(c_key), "")
    /\ c_pc' = "idle"
    /\ UNCHANGED <<max_repositories, max_size_gb, c_key, c_calls, c_started_empty>>
    /\ UNCHANGED notCache

\* clone_repository, lines 79-108: git clone cannot be run (line 100) or exits
\* non-zero with some stderr (lines 102-108); the error is returned and line
\* 60 is not reached.
CloneFails ==
    /\ c_pc = "clone"
    /\ NeedsClone
    /\ \E rmOk \in RemovalOutcomes : disk' = RemoveDirAll(disk, RepoDir(c_key), rmOk)
    /\ \/ /\ c_ran' = [c_ran EXCEPT !.valid = PathExists(disk, RepoDir(c_key)),
                                     !.clone = TRUE, !.exit = "spawn_error"]
          /\ c_ret' = EnsureResult("git_error", <<>>, "Failed to execute git clone")
       \/ \E stderr \in StderrChoices :
             /\ c_ran' = [c_ran EXCEPT !.valid = PathExists(disk, RepoDir(c_key)),
                                        !.clone = TRUE, !.exit = "nonzero",
                                        !.stderr = stderr]
             /\ c_ret' = EnsureResult("git_error", <<>>, GitCloneFailed(stderr))
    /\ c_pc' = "idle"
    /\ UNCHANGED <<max_repositories, max_size_gb, active_repos, c_key, c_calls,
                   c_started_empty, c_admitted>>
    /\ UNCHANGED notCache

\* A directory under the cache root is deleted by someone else (another
\* worker's cache over the same root, or the user).
EnvVanish ==
    /\ c_pc # "off"
    /\ \E p \in DOMAIN disk : disk' = MapDrop(disk, p)
    /\ UNCHANGED <<c_pc, max_repositories, max_size_gb, active_repos, c_key,
                   c_calls, c_ret, c_ran, c_started_empty, c_admitted>>
    /\ UNCHANGED notCache

\* parallel_processor.rs line 108: process builds a new RepositoryCache over
\* the same cache_root for the task it was given, with an empty map; the
\* directories under the root stay.
NewCache ==
    /\ c_pc = "idle"
    /\ active_repos' = EmptyMap
    /\ c_admitted' = <<>>
    /\ UNCHANGED <<c_pc, max_repositories, max_size_gb, disk, c_key, c_calls,
                   c_ret, c_ran, c_started_empty>>
    /\ UNCHANGED notCache

CacheNext ==
    \/ \E k \in Keys : EnsureHit(k)
    \/ NewCache
    \/ \E k \in Keys : EnsureMiss(k)
    \/ CountEvict
    \/ CountDone
    \/ SizeEvict
    \/ SizeDone
    \/ SizeFails
    \/ CreateDirFails
    \/ CloneReuse
    \/ CloneFresh
    \/ CloneFails
    \/ EnvVanish

(***************************************************************************)
(*               RepositoryProcessor::process and main                     *)
(***************************************************************************)

\* Bounds of the model.
MaxTasks == 3
NumWorkers == 2

Workers == 1 .. NumWorkers

\* A source file of a repository: whether read_to_string succeeds, and how
\* many derive statements process_file_safely finds in it.
File(readable, derives) == [readable |-> readable, derives |-> derives]

\* Repository profiles: whether ensure_repository succeeds, whether
\* find_rust_files succeeds, and the .rs files it finds.
Repo(name, clone, find, files) ==
    [full_name |-> name, clone |-> clone, find |-> find, files |-> files]

RepoProfiles ==
    { Repo("clone_fails", "fail", "ok", <<>>),
      Repo("no_files", "ok", "ok", <<>>),
      Repo("find_fails", "ok", "fail", <<>>),
      Repo("two_files", "ok", "ok", <<File(TRUE, 1), File(TRUE, 2)>>),
      Repo("no_derives", "ok", "ok", <<File(FALSE, 1), File(TRUE, 0)>>) }

\* main.rs lines 113-116: the list may be empty.
TaskLists == UNION {[1 .. n -> RepoProfiles] : n \in 0 .. MaxTasks}

\* The derive statements found in file f of a repository.
FileDerives(name, f, n) ==
    [j \in 1 .. n |-> [repository |-> name, file_path |-> f, line_number |-> j]]

\* Lines 133-163: the loop over rust_files; a file that cannot be read is
\* skipped and not counted.
RECURSIVE ScanFiles(_, _, _, _)
ScanFiles(name, files, f, acc) ==
    IF f > Len(files) THEN acc
    ELSE ScanFiles(name, files, f + 1,
                   IF files[f].readable
                   THEN [derive_statements |->
                             acc.derive_statements \o FileDerives(name, f, files[f].derives),
                         rust_files_processed |-> acc.rust_files_processed + 1]
                   ELSE acc)

\* Lines 168-172.
RepositoryResult(name, derives, nfiles) ==
    [repo_name |-> name, derive_statements |-> derives, rust_files_processed |-> nfiles]

ScanResult(repo) ==
    LET r == ScanFiles(repo.full_name, repo.files, 1,
                       [derive_statements |-> <<>>, rust_files_processed |-> 0])
    IN  RepositoryResult(repo.full_name, r.derive_statements, r.rust_files_processed)

\* Lines 123-127: the result returned for a repository without .rs files.
EmptyResult(repo) == RepositoryResult(repo.full_name, <<>>, 0)

\* The flattening that keeps only the result pushed last.
AllDerives_LastOnly(storage) ==
    IF storage = <<>> THEN <<>> ELSE storage[Len(storage)].derive_statements

\* Lines 179-182 (and main.rs lines 213-222): the derive statements of all the
\* stored results, in store order.
RECURSIVE AllDerives(_)
AllDerives(storage) ==
    IF storage = <<>> THEN <<>>
    ELSE AllDerives(SubSeq(storage, 1, Len(storage) - 1))
         \o storage[Len(storage)].derive_statements

\* main.rs line 221.
RECURSIVE TotalFiles(_)
TotalFiles(storage) ==
    IF storage = <<>> THEN 0
    ELSE TotalFiles(Tail(storage)) + Head(storage).rust_files_processed

\* The error of ensure_repository swallowed instead of returned.
EnsureOutcome_Swallowed(repo) == "ok"

\* Lines 111-115: what cache.ensure_repository(repo) gives process.
EnsureOutcome(repo) == repo.clone

\* The checkpoint written whatever the store holds.
CheckpointDue_Always(derives) == TRUE

\* Line 184: the checkpoint is written only when there is a derive statement.
CheckpointDue(derives) == derives # <<>>

\* The push that replaces what the store held.
Push_Replace(storage, result) == <<result>>

\* Line 176: storage.push(result.clone()).
Push(storage, result) == Append(storage, result)

\* The checkpoint made of the pushing task's own derive statements.
StoredDerives_Own(storage) == AllDerives_LastOnly(storage)

\* Lines 179-182: storage.iter().flat_map(|r| r.derive_statements.iter().cloned()),
\* read under the lock guard that pushed.
StoredDerives(storage) == AllDerives(storage)

\* A failed checkpoint write returned as the task's error.
StoreOutcome_Fatal(outcome) ==
    IF outcome \in {"saved", "none"} THEN "ok" ELSE "persistence_error"

\* Lines 188-201: the result of the checkpoint write is only logged (warn! or
\* info!); process returns Ok(result) either way.
StoreOutcome(outcome) == "ok"

NoResult == RepositoryResult("", <<>>, 0)
Pending == [status |-> "pending", result |-> NoResult]

\* A file of the output directory: absent, or holding the serialization of
\* the derive statements in content, or torn (created by File::create and
\* left incomplete by a failed write_all).
NoCheckpoint == [written |-> FALSE, torn |-> FALSE, content |-> <<>>]
Written(derives) == [written |-> TRUE, torn |-> FALSE, content |-> derives]
Torn == [written |-> TRUE, torn |-> TRUE, content |-> <<>>]
NoArtifacts == [json |-> NoCheckpoint, csv |-> NoCheckpoint, summary |-> NoCheckpoint]

\* persistence.rs lines 16-18, 28-44, 91-93: what a save leaves behind: the
\* file with the whole serialization; or, when it fails, the file as it was
\* (serialization or File::create failed) or a torn file (the write failed).
SaveOutcomes == {"saved", "untouched", "torn"}
AfterSave(file, derives, outcome) ==
    CASE outcome = "saved" -> Written(derives)
      [] outcome = "untouched" -> file
      [] outcome = "torn" -> Torn

PipeInit ==
    /\ m_pc = "start"
    /\ tasks \in TaskLists
    /\ p_next = 1
    /\ w_pc = [w \in Workers |-> "idle"]
    /\ w_task = [w \in Workers |-> 0]
    /\ w_result = [w \in Workers |-> NoResult]
    /\ results_storage = <<>>
    /\ checkpoint = NoCheckpoint
    /\ ckpt_attempts = 0
    /\ ckpt_last = <<>>
    /\ p_outcome = [t \in 1 .. Len(tasks) |-> Pending]
    /\ successful = 0
    /\ failed = 0
    /\ all_derives = <<>>
    /\ total_files_processed = 0
    /\ m_ret = "none"
    /\ m_reported = FALSE
    /\ artifacts = NoArtifacts

PipeIdle ==
    /\ m_pc = "off"
    /\ tasks = <<>>
    /\ p_next = 1
    /\ w_pc = [w \in Workers |-> "idle"]
    /\ w_task = [w \in Workers |-> 0]
    /\ w_result = [w \in Workers |-> NoResult]
    /\ results_storage = <<>>
    /\ checkpoint = NoCheckpoint
    /\ ckpt_attempts = 0
    /\ ckpt_last = <<>>
    /\ p_outcome = <<>>
    /\ successful = 0
    /\ failed = 0
    /\ all_derives = <<>>
    /\ total_files_processed = 0
    /\ m_ret = "none"
    /\ m_reported = FALSE
    /\ artifacts = NoArtifacts

\* The scheduler hands the next task to a free worker, which calls process.
TakeTask(w) ==
    /\ m_pc = "processing"
    /\ w_pc[w] = "idle"
    /\ p_next <= Len(tasks)
    /\ w_task' = [w_task EXCEPT ![w] = p_next]
    /\ p_next' = p_next + 1
    /\ w_pc' = [w_pc EXCEPT ![w] = "ensure"]
    /\ UNCHANGED <<m_pc, tasks, w_result, results_storage, checkpoint, ckpt_attempts,
                   ckpt_last, p_outcome, successful, failed, all_derives,
                   total_files_processed>>
    /\ UNCHANGED mainTail
    /\ UNCHANGED notPipe

\* process returns Err: the collector counts a failure.
ReturnErr(w, why) ==
    /\ p_outcome' = [p_outcome EXCEPT ![w_task[w]] = [status |-> why, result |-> NoResult]]
    /\ failed' = failed + 1
    /\ w_pc' = [w_pc EXCEPT ![w] = "idle"]
    /\ w_task' = [w_task EXCEPT ![w] = 0]
    /\ w_result' = [w_result EXCEPT ![w] = NoResult]
    /\ UNCHANGED successful

\* process returns Ok(result): the collector counts a success.
ReturnOk(w, result) ==
    /\ p_outcome' = [p_outcome EXCEPT ![w_task[w]] = [status |-> "ok", result |-> result]]
    /\ successful' = successful + 1
    /\ w_pc' = [w_pc EXCEPT ![w] = "idle"]
    /\ w_task' = [w_task EXCEPT ![w] = 0]
    /\ w_result' = [w_result EXCEPT ![w] = NoResult]
    /\ UNCHANGED failed

\* Lines 108-115: ensure_repository fails, process returns CloneError.
ProcessEnsureFails(w) ==
    /\ w_pc[w] = "ensure"
    /\ EnsureOutcome(tasks[w_task[w]]) = "fail"
    /\ ReturnErr(w, "clone_error")
    /\ UNCHANGED <<m_pc, tasks, p_next, results_storage, checkpoint, ckpt_attempts,
                   ckpt_last, all_derives, total_files_processed>>
    /\ UNCHANGED mainTail
    /\ UNCHANGED notPipe

\* Lines 108-115: ensure_repository gives the path.
ProcessEnsureOk(w) ==
    /\ w_pc[w] = "ensure"
    /\ EnsureOutcome(tasks[w_task[w]]) = "ok"
    /\ w_pc' = [w_pc EXCEPT ![w] = "scan"]
    /\ UNCHANGED <<m_pc, tasks, p_next, w_task, w_result, results_storage, checkpoint,
                   ckpt_attempts, ckpt_last, p_outcome, successful, failed,
                   all_derives, total_files_processed>>
    /\ UNCHANGED mainTail
    /\ UNCHANGED notPipe

\* Lines 118-119: find_rust_files fails, process returns FileAccessError.
ProcessFindFails(w) ==
    /\ w_pc[w] = "scan"
    /\ tasks[w_task[w]].find = "fail"
    /\ ReturnErr(w, "file_access_error")
    /\ UNCHANGED <<m_pc, tasks, p_next, results_storage, checkpoint, ckpt_attempts,
                   ckpt_last, all_derives, total_files_processed>>
    /\ UNCHANGED mainTail
    /\ UNCHANGED notPipe

\* Lines 121-128: no .rs file, process returns Ok with an empty result.
ProcessNoFiles(w) ==
    /\ w_pc[w] = "scan"
    /\ tasks[w_task[w]].find = "ok"
    /\ tasks[w_task[w]].files = <<>>
    /\ ReturnOk(w, EmptyResult(tasks[w_task[w]]))
    /\ UNCHANGED <<m_pc, tasks, p_next, results_storage, checkpoint, ckpt_attempts,
                   ckpt_last, all_derives, total_files_processed>>
    /\ UNCHANGED mainTail
    /\ UNCHANGED notPipe

\* Lines 130-172: the files are scanned and the result is built.
ProcessScan(w) ==
    /\ w_pc[w] = "scan"
    /\ tasks[w_task[w]].find = "ok"
    /\ tasks[w_task[w]].files # <<>>
    /\ w_result' = [w_result EXCEPT ![w] = ScanResult(tasks[w_task[w]])]
    /\ w_pc' = [w_pc EXCEPT ![w] = "store"]
    /\ UNCHANGED <<m_pc, tasks, p_next, w_task, results_storage, checkpoint,
                   ckpt_attempts, ckpt_last, p_outcome, successful, failed,
                   all_derives, total_files_processed>>
    /\ UNCHANGED mainTail
    /\ UNCHANGED notPipe

\* Lines 174-201: under the store's lock the result is pushed and, when the
\* store holds a derive statement, the checkpoint is rewritten with all of
\* them (a write that fails is only logged); process returns Ok(result).
ProcessStore(w) ==
    /\ w_pc[w] = "store"
    /\ results_storage' = Push(results_storage, w_result[w])
    /\ \E outcome \in (IF CheckpointDue(StoredDerives(results_storage'))
                        THEN SaveOutcomes ELSE {"none"}) :
           /\ IF outcome # "none"
              THEN /\ ckpt_attempts' = ckpt_attempts + 1
                   /\ ckpt_last' = StoredDerives(results_storage')
                   /\ checkpoint' = AfterSave(checkpoint, StoredDerives(results_storage'),
                                              outcome)
              ELSE UNCHANGED <<checkpoint, ckpt_attempts, ckpt_last>>
           /\ IF StoreOutcome(outcome) = "ok"
              THEN ReturnOk(w, w_result[w])
              ELSE ReturnErr(w, StoreOutcome(outcome))
    /\ UNCHANGED <<m_pc, tasks, p_next, all_derives, total_files_processed>>
    /\ UNCHANGED mainTail
    /\ UNCHANGED notPipe

\* The manager joined, the workers not waited for.
AllJoined_ManagerOnly == p_next > Len(tasks)

\* main.rs lines 168-227: the manager, the workers and the collector are
\* joined (manager_handle.join(), every worker's handle.join(),
\* collector_handle.join()), then the store is read and aggregated.
AllJoined == p_next > Len(tasks) /\ \A w \in Workers : w_pc[w] = "idle"

MainAggregate ==
    /\ m_pc = "processing"
    /\ AllJoined
    /\ all_derives' = AllDerives(results_storage)
    /\ total_files_processed' = TotalFiles(results_storage)
    /\ m_pc' = "aggregated"
    /\ UNCHANGED <<tasks, p_next, w_pc, w_task, w_result, results_storage, checkpoint,
                   ckpt_attempts, ckpt_last, p_outcome, successful, failed>>
    /\ UNCHANGED mainTail
    /\ UNCHANGED notPipe

\* The final export made whatever was found.
ExportDue_Always(derives) == TRUE

\* main.rs line 234: the final artifacts are written only when there is a
\* derive statement.
ExportDue(derives) == derives # <<>>

\* main.rs line 110: the cache directory cannot be created; main returns the
\* error.
MainCreateDirFails ==
    /\ m_pc = "start"
    /\ m_pc' = "returned"
    /\ m_ret' = "err"
    /\ UNCHANGED <<tasks, p_next, w_pc, w_task, w_result, results_storage, checkpoint,
                   ckpt_attempts, ckpt_last, p_outcome, successful, failed,
                   all_derives, total_files_processed, m_reported, artifacts>>
    /\ UNCHANGED notPipe

\* main.rs lines 118-121: no repository task; main warns and returns Ok.
MainNoRepositories ==
    /\ m_pc = "start"
    /\ tasks = <<>>
    /\ m_pc' = "returned"
    /\ m_ret' = "ok"
    /\ UNCHANGED <<tasks, p_next, w_pc, w_task, w_result, results_storage, checkpoint,
                   ckpt_attempts, ckpt_last, p_outcome, successful, failed,
                   all_derives, total_files_processed, m_reported, artifacts>>
    /\ UNCHANGED notPipe

\* main.rs lines 123-166: the manager, the workers and the collector are
\* started.
MainStartProcessing ==
    /\ m_pc = "start"
    /\ tasks # <<>>
    /\ m_pc' = "processing"
    /\ UNCHANGED <<tasks, p_next, w_pc, w_task, w_result, results_storage, checkpoint,
                   ckpt_attempts, ckpt_last, p_outcome, successful, failed,
                   all_derives, total_files_processed, m_ret, m_reported, artifacts>>
    /\ UNCHANGED notPipe

\* main.rs lines 234, 263-276: nothing to save; main warns, prints the
\* completion message and returns Ok.
MainNoFindings ==
    /\ m_pc = "aggregated"
    /\ ~ExportDue(all_derives)
    /\ m_pc' = "returned"
    /\ m_ret' = "ok"
    /\ m_reported' = TRUE
    /\ UNCHANGED <<tasks, p_next, w_pc, w_task, w_result, results_storage, checkpoint,
                   ckpt_attempts, ckpt_last, p_outcome, successful, failed,
                   all_derives, total_files_processed, artifacts>>
    /\ UNCHANGED notPipe

\* The export going on to its next save after one that failed.
OnSaveError_Continue(to) == to

\* main.rs lines 237-241, 246-250, 255-259: Err(e) => { ...; return Err(e); }
OnSaveError(to) == "returned"

\* main.rs lines 234-260: one save of the final export; a save that fails
\* makes main return its error.
FinalSave(from, name, to) ==
    /\ m_pc = from
    /\ \E outcome \in SaveOutcomes :
           /\ artifacts' = [artifacts EXCEPT
                                ![name] = AfterSave(artifacts[name], all_derives, outcome)]
           /\ IF outcome = "saved"
              THEN /\ m_pc' = to
                   /\ m_ret' = IF to = "returned" THEN "ok" ELSE m_ret
                   /\ m_reported' = (to = "returned")
              ELSE /\ m_pc' = OnSaveError(to)
                   /\ m_ret' = "err"
                   /\ m_reported' = m_reported
    /\ UNCHANGED <<tasks, p_next, w_pc, w_task, w_result, results_storage, checkpoint,
                   ckpt_attempts, ckpt_last, p_outcome, successful, failed,
                   all_derives, total_files_processed>>
    /\ UNCHANGED notPipe

\* main.rs lines 235-242: save_to_json(&all_derives, &json_output).
MainSaveJson == ExportDue(all_derives) /\ FinalSave("aggregated", "json", "json_saved")

\* main.rs lines 244-251: save_to_csv(&all_derives, &csv_output).
MainSaveCsv == FinalSave("json_saved", "csv", "csv_saved")

\* main.rs lines 253-276: save_summary(&all_derives, &summary_output), then
\* the completion message and Ok.
MainSaveSummary == FinalSave("csv_saved", "summary", "returned")

PipeNext ==
    \/ MainCreateDirFails
    \/ MainNoRepositories
    \/ MainStartProcessing
    \/ MainNoFindings
    \/ MainSaveJson
    \/ MainSaveCsv
    \/ MainSaveSummary
    \/ \E w \in Workers : TakeTask(w)
    \/ \E w \in Workers : ProcessEnsureFails(w)
    \/ \E w \in Workers : ProcessEnsureOk(w)
    \/ \E w \in Workers : ProcessFindFails(w)
    \/ \E w \in Workers : ProcessNoFiles(w)
    \/ \E w \in Workers : ProcessScan(w)
    \/ \E w \in Workers : ProcessStore(w)
    \/ MainAggregate

(***************************************************************************)
(*                              RustParser                                 *)
(***************************************************************************)

\* ---- str operations used by the parser ----

\* The k-th smallest element of a set of numbers.
NthSmallest(S, k) == CHOOSE i \in S : Cardinality({j \in S : j < i}) = k - 1
Smallest(S) == CHOOSE i \in S : \A j \in S : i <= j
Largest(S) == CHOOSE i \in S : \A j \in S : j <= i

\* The character of s at index i, "" outside s.
CharAt(s, i) == IF 1 <= i /\ i <= Len(s) THEN SubSeq(s, i, i) ELSE ""

\* str::starts_with, str::ends_with, str::contains.
StartsWith(s, p) == Len(s) >= Len(p) /\ SubSeq(s, 1, Len(p)) = p
EndsWith(s, p) == Len(s) >= Len(p) /\ SubSeq(s, Len(s) - Len(p) + 1, Len(s)) = p
StrContains(s, p) == \E i \in 1 .. (Len(s) - Len(p) + 1) : SubSeq(s, i, i + Len(p) - 1) = p

\* str::matches(p).count(), for a pattern that cannot overlap itself.
CountMatches(s, p) ==
    Cardinality({i \in 1 .. (Len(s) - Len(p) + 1) : SubSeq(s, i, i + Len(p) - 1) = p})

\* char::is_whitespace, on the characters the inputs use.
IsWhitespace(c) == c \in {" ", "\t", "\r"}

\* str::trim.
Trim(s) ==
    LET inked == {i \in 1 .. Len(s) : ~IsWhitespace(SubSeq(s, i, i))}
    IN  IF inked = {} THEN "" ELSE SubSeq(s, Smallest(inked), Largest(inked))

\* str::split on one character: the pieces between the separators, empty
\* pieces included.
PieceOf(s, seps, k) ==
    SubSeq(s,
           IF k = 1 THEN 1 ELSE NthSmallest(seps, k - 1) + 1,
           IF k = Cardinality(seps) + 1 THEN Len(s) ELSE NthSmallest(seps, k) - 1)

Split(s, sep) ==
    [k \in 1 .. (CountMatches(s, sep) + 1) |->
        PieceOf(s, {i \in 1 .. Len(s) : SubSeq(s, i, i) = sep}, k)]

\* filter(|s| !s.is_empty()).
RECURSIVE DropEmpty(_)
DropEmpty(seq) ==
    IF seq = <<>> THEN <<>>
    ELSE (IF Head(seq) # "" THEN <<Head(seq)>> ELSE <<>>) \o DropEmpty(Tail(seq))

TrimAll(seq) == [i \in 1 .. Len(seq) |-> Trim(seq[i])]

\* ---- DeriveStatement and the text tier ----

DeriveStatement(repository, file_path, line_number, derives, full_line) ==
    [repository |-> repository, file_path |-> file_path, line_number |-> line_number,
     derives |-> derives, full_line |-> full_line]

\* Lines 128-133: the names between "#[derive(" and ")]".
TextDeriveList(trimmed) ==
    DropEmpty(TrimAll(Split(SubSeq(trimmed, 10, Len(trimmed) - 2), ",")))

\* Lines 126-146 for one line: the finding of the line, if it has one.
TextFinding(trimmed, line, line_num, repository, file_path) ==
    IF StartsWith(trimmed, "#[derive(") /\ EndsWith(trimmed, ")]")
                                        /\ TextDeriveList(trimmed) # <<>>
    THEN <<DeriveStatement(repository, file_path, line_num + 1,
                           TextDeriveList(trimmed), line)>>
    ELSE <<>>

\* Lines 117-149: the loop over content.lines().enumerate(); lines is what
\* content.lines() gives.
RECURSIVE extract_derives_text_based(_, _, _, _)
extract_derives_text_based(lines, line_num, repository, file_path) ==
    IF line_num >= Len(lines) THEN <<>>
    ELSE TextFinding(Trim(lines[line_num + 1]), lines[line_num + 1], line_num,
                     repository, file_path)
         \o extract_derives_text_based(lines, line_num + 1, repository, file_path)

\* ---- syn::parse_file, on the subset of Rust the inputs use ----

IdentChars ==
    {"a", "b", "c", "d", "e", "f", "g", "h", "i", "j", "k", "l", "m", "n", "o", "p",
     "q", "r", "s", "t", "u", "v", "w", "x", "y", "z",
     "A", "B", "C", "D", "E", "F", "G", "H", "I", "J", "K", "L", "M", "N", "O", "P",
     "Q", "R", "S", "T", "U", "V", "W", "X", "Y", "Z",
     "0", "1", "2", "3", "4", "5", "6", "7", "8", "9", "_"}

Openers == {"(", "[", "{"}
Closers == {")", "]", "}"}
PunctChars == {"#", ";", ",", ":", "=", "!", "<", ">", "&", "*"}

Closer(o) == CASE o = "(" -> ")" [] o = "[" -> "]" [] o = "{" -> "}"

\* The token that stands for a character the lexer rejects.
BadToken == "?"

\* The part of a line before its // comment.
Code(l) ==
    LET starts == {i \in 1 .. (Len(l) - 1) : SubSeq(l, i, i + 1) = "//"}
    IN  IF starts = {} THEN l ELSE SubSeq(l, 1, Smallest(starts) - 1)

\* Whether a token starts at index i of c: at a character that is not white
\* space, not inside an identifier and not the second colon of "::".
TokenStart(c, i) ==
    /\ ~IsWhitespace(CharAt(c, i))
    /\ ~(CharAt(c, i) \in IdentChars /\ CharAt(c, i - 1) \in IdentChars)
    /\ ~(CharAt(c, i) = ":" /\ CharAt(c, i - 1) = ":" /\ CharAt(c, i - 2) # ":")

\* The token that starts at index i of c.
TokenAt(c, i) ==
    IF CharAt(c, i) \in IdentChars
    THEN SubSeq(c, i, Smallest({j \in i .. Len(c) : CharAt(c, j + 1) \notin IdentChars}))
    ELSE IF CharAt(c, i) = ":" /\ CharAt(c, i + 1) = ":" THEN "::"
    ELSE IF CharAt(c, i) \in Openers \cup Closers \cup PunctChars THEN CharAt(c, i)
    ELSE BadToken

TokensOf(c, starts) ==
    [k \in 1 .. Cardinality(starts) |-> TokenAt(c, NthSmallest(starts, k))]

\* The lexer on one line: identifiers, delimiters and punctuation ("::" is
\* one token), comments and white space skipped.
LexLine(l) == TokensOf(Code(l), {i \in 1 .. Len(Code(l)) : TokenStart(Code(l), i)})

RECURSIVE Lex(_)
Lex(lines) == IF lines = <<>> THEN <<>> ELSE LexLine(Head(lines)) \o Lex(Tail(lines))

IsIdent(tok) == tok # "" /\ CharAt(tok, 1) \in IdentChars

\* The index of the token that closes the group whose closers are expected
\* in stack (innermost first), scanning from index i; 0 when the delimiters
\* do not match.
RECURSIVE GroupEnd(_, _, _)
GroupEnd(toks, i, stack) ==
    IF i > Len(toks) THEN 0
    ELSE IF toks[i] \in Openers THEN GroupEnd(toks, i + 1, <<Closer(toks[i])>> \o stack)
    ELSE IF toks[i] \in Closers
         THEN IF toks[i] # Head(stack) THEN 0
              ELSE IF Len(stack) = 1 THEN i
              ELSE GroupEnd(toks, i + 1, Tail(stack))
    ELSE GroupEnd(toks, i + 1, stack)

Tok(toks, i) == IF 1 <= i /\ i <= Len(toks) THEN toks[i] ELSE ""

ParseError == [ok |-> FALSE]

\* The Meta of the attribute whose "#" is at index i and whose "]" is at
\* index e: #[path], #[path(tokens)] or #[path = ...].
AttrMeta(toks, i, e) ==
    IF e = 0 \/ ~IsIdent(Tok(toks, i + 2)) THEN ParseError
    ELSE IF e = i + 3
         THEN [ok |-> TRUE, pos |-> e + 1,
               attr |-> [path |-> toks[i + 2], meta |-> "Path", tokens |-> <<>>]]
    ELSE IF toks[i + 3] = "(" /\ toks[e - 1] = ")"
                              /\ GroupEnd(toks, i + 4, <<")">>) = e - 1
         THEN [ok |-> TRUE, pos |-> e + 1,
               attr |-> [path |-> toks[i + 2], meta |-> "List",
                         tokens |-> SubSeq(toks, i + 4, e - 2)]]
    ELSE IF toks[i + 3] = "=" /\ e > i + 4
         THEN [ok |-> TRUE, pos |-> e + 1,
               attr |-> [path |-> toks[i + 2], meta |-> "NameValue", tokens |-> <<>>]]
    ELSE ParseError

\* One attribute, from the "#" at index i.
ParseAttr(toks, i) ==
    IF Tok(toks, i + 1) # "[" THEN ParseError
    ELSE AttrMeta(toks, i, GroupEnd(toks, i + 2, <<"]">>))

\* The outer attributes of an item, from index i.
RECURSIVE ParseAttrs(_, _, _)
AttrsNext(toks, a, attrs) ==
    IF a.ok THEN ParseAttrs(toks, a.pos, Append(attrs, a.attr)) ELSE ParseError

ParseAttrs(toks, i, attrs) ==
    IF Tok(toks, i) = "#"
    THEN AttrsNext(toks, ParseAttr(toks, i), attrs)
    ELSE [ok |-> TRUE, pos |-> i, attrs |-> attrs]

\* The index after the group that opens at index i with opener o, 0 when
\* there is no such group.
AfterClose(e) == IF e = 0 THEN 0 ELSE e + 1

AfterGroup(toks, i, o) ==
    IF Tok(toks, i) # o THEN 0 ELSE AfterClose(GroupEnd(toks, i + 1, <<Closer(o)>>))

\* The index after a group that must be followed by ";" at index e.
AfterSemi(toks, e) == IF e # 0 /\ Tok(toks, e) = ";" THEN e + 1 ELSE 0

\* The index after the group with opener o that must follow a group ending
\* before index e.
ThenGroup(toks, e, o) == IF e = 0 THEN 0 ELSE AfterGroup(toks, e, o)

\* The rest of an item after its keyword at index k: the index after the
\* item, 0 when it is not an item of the subset.
ItemEnd(toks, k) ==
    IF ~IsIdent(Tok(toks, k + 1)) THEN 0
    ELSE IF Tok(toks, k) \in {"struct", "mod"} /\ Tok(toks, k + 2) = ";" THEN k + 3
    ELSE IF Tok(toks, k) \in {"struct", "mod", "enum", "union"} /\ Tok(toks, k + 2) = "{"
         THEN AfterGroup(toks, k + 2, "{")
    ELSE IF Tok(toks, k) = "struct" THEN AfterSemi(toks, AfterGroup(toks, k + 2, "("))
    ELSE IF Tok(toks, k) = "fn" THEN ThenGroup(toks, AfterGroup(toks, k + 2, "("), "{")
    ELSE 0

\* The items of a file, from index i: File.items, each item with its kind
\* and its outer attributes.
RECURSIVE ParseItems(_, _, _)
ItemsNext(toks, a, k, e, items) ==
    IF e = 0 THEN ParseError
    ELSE ParseItems(toks, e, Append(items, [kind |-> toks[k], attrs |-> a.attrs]))

ItemAfterAttrs(toks, a, k, items) == ItemsNext(toks, a, k, ItemEnd(toks, k), items)

ItemFrom(toks, a, items) ==
    IF ~a.ok THEN ParseError
    ELSE ItemAfterAttrs(toks, a, IF Tok(toks, a.pos) = "pub" THEN a.pos + 1 ELSE a.pos,
                        items)

ParseItems(toks, i, items) ==
    IF i > Len(toks) THEN [ok |-> TRUE, items |-> items]
    ELSE ItemFrom(toks, ParseAttrs(toks, i, <<>>), items)

\* syn::parse_file on the lines of a text.
ParseTokens(toks) ==
    IF \E i \in 1 .. Len(toks) : toks[i] = BadToken THEN ParseError
    ELSE ParseItems(toks, 1, <<>>)

ParseText(lines) == ParseTokens(Lex(lines))

\* ---- the structured tier ----

\* TokenStream::to_string: the tokens separated by single spaces.
RECURSIVE TokensToString(_)
TokensToString(toks) ==
    IF toks = <<>> THEN ""
    ELSE IF Len(toks) = 1 THEN toks[1]
    ELSE toks[1] \o " " \o TokensToString(Tail(toks))

\* Line 113: every character is alphanumeric, '_' or ':'.
AllDeriveChars(s) == \A i \in 1 .. Len(s) : SubSeq(s, i, i) \in IdentChars \cup {":"}

RECURSIVE KeepDeriveNames(_)
KeepDeriveNames(seq) ==
    IF seq = <<>> THEN <<>>
    ELSE (IF Head(seq) # "" /\ AllDeriveChars(Head(seq)) THEN <<Head(seq)>> ELSE <<>>)
         \o KeepDeriveNames(Tail(seq))

\* Lines 108-115.
parse_derive_tokens(tokens) == KeepDeriveNames(TrimAll(Split(tokens, ",")))

FirstOr(S, default) == IF S = {} THEN default ELSE Smallest(S)

\* The line number that is always 1.
find_line_number_FirstLine(lines) == 1

\* Lines 151-159: the first line that contains "derive", 1 when none does.
find_line_number(lines) ==
    FirstOr({n \in 1 .. Len(lines) : StrContains(lines[n], "derive")}, 1)

\* Lines 161-167.
get_line_at_number(lines, line_number) ==
    IF 1 <= line_number /\ line_number <= Len(lines) THEN lines[line_number]
    ELSE IF line_number = 0 /\ lines # <<>> THEN lines[1]
    ELSE ""

\* Lines 83-94: the finding of one attribute, if it has one.
AttrFinding(attr, derive_list, line_number, repository, file_path, lines) ==
    IF attr.path = "derive" /\ attr.meta = "List" /\ derive_list # <<>>
    THEN <<DeriveStatement(repository, file_path, line_number, derive_list,
                           get_line_at_number(lines, line_number))>>
    ELSE <<>>

\* Lines 78-105: the findings of the attributes of one item.
RECURSIVE extract_derives_from_attrs(_, _, _, _)
extract_derives_from_attrs(attrs, repository, file_path, lines) ==
    IF attrs = <<>> THEN <<>>
    ELSE AttrFinding(Head(attrs), parse_derive_tokens(TokensToString(Head(attrs).tokens)),
                     find_line_number(lines), repository, file_path, lines)
         \o extract_derives_from_attrs(Tail(attrs), repository, file_path, lines)

\* Lines 48-68: only struct, enum and union items are looked at.
extract_derives_from_item(item, repository, file_path, lines) ==
    IF item.kind \in {"struct", "enum", "union"}
    THEN extract_derives_from_attrs(item.attrs, repository, file_path, lines)
    ELSE <<>>

\* Lines 29-31: the loop over file.items.
RECURSIVE ItemsDerives(_, _, _, _)
ItemsDerives(items, repository, file_path, lines) ==
    IF items = <<>> THEN <<>>
    ELSE extract_derives_from_item(Head(items), repository, file_path, lines)
         \o ItemsDerives(Tail(items), repository, file_path, lines)

\* ---- the inputs ----

\* Bound of the model: the number of lines of a text.
MaxLines == 3

\* Lines 185, 192 and 199: the thresholds of is_likely_problematic_file.
ProblemLen == 500000
ProblemBraces == 1000
ProblemMacros == 200

Repository == "owner/repo"
FilePaths == {"src/lib.rs", "rust-lang/rust/tests/ui/a.rs"}

RECURSIVE Join(_, _)
Join(strs, sep) ==
    IF strs = <<>> THEN ""
    ELSE IF Len(strs) = 1 THEN strs[1]
    ELSE strs[1] \o sep \o Join(Tail(strs), sep)

\* A derive attribute written on one line.
AttrLine(indent, names) == indent \o "#[derive(" \o Join(names, ", ") \o ")]"

PlainAttrs == {<<"", <<"Clone", "Copy">>>>, <<"    ", <<"Debug">>>>}
StructLines == {"struct S;", "pub struct P { a: u32 }"}

LineCatalogue ==
    {AttrLine(a[1], a[2]) : a \in PlainAttrs}
    \cup StructLines
    \cup {"", "// derive", "struct {", AttrLine("", <<"Debug", "serde::Serialize">>),
          "pub enum E { A }"}

\* A text is given by its lines, each ended by a line feed.
Texts == UNION {[1 .. n -> LineCatalogue] : n \in 0 .. MaxLines}

RECURSIVE TextLen(_)
TextLen(lines) == IF lines = <<>> THEN 0 ELSE Len(Head(lines)) + 1 + TextLen(Tail(lines))

RECURSIVE CountInLines(_, _)
CountInLines(lines, p) ==
    IF lines = <<>> THEN 0 ELSE CountMatches(Head(lines), p) + CountInLines(Tail(lines), p)

\* What follows the text in a file: nothing, or a long function given by
\* what the parser reads from it: its length, its braces, its "#[" and
\* "macro_rules!" occurrences, and what parse_file does on it. It has no
\* line with "derive".
NoBulk ==
    [kind |-> "none", len |-> 0, open_braces |-> 0, close_braces |-> 0,
     macros |-> 0, parse |-> "ok"]
\* Thousands of unmatched opening braces.
UnmatchedBraces ==
    [kind |-> "unmatched_braces", len |-> 3000, open_braces |-> 3000, close_braces |-> 0,
     macros |-> 0, parse |-> "err"]
\* fn f() { ((( ... ))) } with 100000 nested parentheses: parse_file recurses
\* once per level and exhausts the thread's stack, which ends the process.
DeepParens ==
    [kind |-> "deep_parens", len |-> 200020, open_braces |-> 1, close_braces |-> 1,
     macros |-> 0, parse |-> "overflow"]
\* An input on which the parser panics.
PanicTrigger ==
    [kind |-> "parser_panic", len |-> 100, open_braces |-> 1, close_braces |-> 1,
     macros |-> 0, parse |-> "panic"]

Bulks == {NoBulk, UnmatchedBraces, DeepParens, PanicTrigger}

Content(text, bulk) == [text |-> text, bulk |-> bulk]

\* ---- extract_derives and extract_derives_text_only ----

\* Lines 176-204.
is_likely_problematic_file(content, file_path) ==
    \/ StrContains(file_path, "rust-lang/rust/tests/")
    \/ TextLen(content.text) + content.bulk.len > ProblemLen
    \/ CountInLines(content.text, "{") + content.bulk.open_braces > ProblemBraces
    \/ CountInLines(content.text, "}") + content.bulk.close_braces > ProblemBraces
    \/ CountInLines(content.text, "macro_rules!") + CountInLines(content.text, "#[")
         + content.bulk.macros > ProblemMacros

\* parallel_processor.rs lines 65-99: the thresholds of the pre-filter.
PrefilterLen == 200000
PrefilterMacros == 100
PrefilterBraces == 500

\* The pre-filter testing the content's length only.
PrefilterSignals_LengthOnly(content) ==
    TextLen(content.text) + content.bulk.len > PrefilterLen

\* parallel_processor.rs lines 73-91: the tests of the pre-filter on the
\* content's length, on its "macro_rules!" and "#[" occurrences and on its
\* opening braces.
PrefilterSignals(content) ==
    \/ TextLen(content.text) + content.bulk.len > PrefilterLen
    \/ CountInLines(content.text, "macro_rules!") + CountInLines(content.text, "#[")
         + content.bulk.macros > PrefilterMacros
    \/ CountInLines(content.text, "{") + content.bulk.open_braces > PrefilterBraces

\* parallel_processor.rs lines 65-99. The test for the text "expected" followed
\* by a quoted "!" (line 93) is left out: no line of the catalogue holds a
\* backquote, so it is false on every content of the model.
should_use_text_only_parsing(content, file_path) ==
    \/ StrContains(file_path, "rust-lang/rust/tests/")
    \/ PrefilterSignals(content)
    \/ CountInLines(content.text, "issue-105330") > 0
    \/ StrContains(file_path, "associated-consts")

\* Line 27: what catch_unwind(parse_file) meets.
parse_file(content) ==
    IF content.bulk.parse \in {"panic", "overflow"}
    THEN [kind |-> content.bulk.parse, items |-> <<>>]
    ELSE LET p == ParseText(content.text)
         IN  IF p.ok /\ content.bulk.parse = "ok"
             THEN [kind |-> "ok", items |-> p.items]
             ELSE [kind |-> "err", items |-> <<>>]

Returned(via, derives) == [status |-> "returned", via |-> via, derives |-> derives]
Aborted(via) == [status |-> "aborted", via |-> via, derives |-> <<>>]
NotRun == [status |-> "not_run", via |-> "none", derives |-> <<>>]

\* Lines 19-23: a file the guard takes is not parsed.
Attempt(content, file_path) ==
    IF is_likely_problematic_file(content, file_path)
    THEN [kind |-> "guard", items |-> <<>>]
    ELSE parse_file(content)

\* The list of an earlier call kept instead of a new one.
NewDerives_Kept == r_extract.derives

\* Line 16: every call starts from a new, empty list; RustParser has no field.
NewDerives == <<>>

\* Lines 27-45: the arms of the match. A stack overflow is not a panic:
\* catch_unwind does not stop it and the process ends.
Outcome(parsed, content, repository, file_path) ==
    IF parsed.kind = "overflow" THEN Aborted("stack_overflow")
    ELSE Returned(IF parsed.kind = "ok" THEN "structured"
                  ELSE IF parsed.kind = "err" THEN "syntax_error"
                  ELSE parsed.kind,
                  NewDerives
                  \o (IF parsed.kind = "ok"
                      THEN ItemsDerives(parsed.items, repository, file_path, content.text)
                      ELSE extract_derives_text_based(content.text, 0, repository, file_path)))

\* Lines 15-46.
extract_derives(content, repository, file_path) ==
    Outcome(Attempt(content, file_path), content, repository, file_path)

\* Lines 169-174.
extract_derives_text_only(content, repository, file_path) ==
    Returned("text_only", extract_derives_text_based(content.text, 0, repository, file_path))

ParserInit ==
    /\ r_content \in {Content(t, b) : t \in Texts, b \in Bulks}
    /\ r_path \in FilePaths
    /\ (r_content.bulk = NoBulk \/ r_path = "src/lib.rs")
    /\ r_extract = NotRun
    /\ r_text_only = NotRun
    /\ r_again = NotRun

ParserIdle ==
    /\ r_content = Content(<<>>, NoBulk)
    /\ r_path = ""
    /\ r_extract = NotRun
    /\ r_text_only = NotRun
    /\ r_again = NotRun

\* extract_derives is called: it returns its findings, or the process ends
\* inside parse_file.
ExtractDerives ==
    /\ r_extract = NotRun
    /\ r_extract' = extract_derives(r_content, Repository, r_path)
    /\ UNCHANGED <<r_content, r_path, r_text_only, r_again>>
    /\ UNCHANGED notParser

\* extract_derives_text_only is called.
ExtractDerivesTextOnly ==
    /\ r_text_only = NotRun
    /\ r_extract.status # "aborted"
    /\ r_text_only' = extract_derives_text_only(r_content, Repository, r_path)
    /\ UNCHANGED <<r_content, r_path, r_extract, r_again>>
    /\ UNCHANGED notParser

\* extract_derives is called a second time by the same RustParser, on the
\* same content, repository and file_path.
ExtractDerivesAgain ==
    /\ r_extract.status = "returned"
    /\ r_again = NotRun
    /\ r_again' = extract_derives(r_content, Repository, r_path)
    /\ UNCHANGED <<r_content, r_path, r_extract, r_text_only>>
    /\ UNCHANGED notParser

ParserNext ==
    \/ ExtractDerives
    \/ ExtractDerivesTextOnly
    \/ ExtractDerivesAgain

(***************************************************************************)
(*                 RepositoryProcessor::process_file_safely                *)
(***************************************************************************)

\* Bound of the model: the lines of the text of a file given to
\* process_file_safely.
MaxPrefilterLines == 1

\* What follows the text in a file, as in Bulks: a long file, files with many
\* attributes or macros, a file with many closing braces.
LargeFile ==
    [kind |-> "large", len |-> 600000, open_braces |-> 1, close_braces |-> 1,
     macros |-> 0, parse |-> "ok"]
ManyAttributes ==
    [kind |-> "many_attributes", len |-> 3000, open_braces |-> 1, close_braces |-> 1,
     macros |-> 150, parse |-> "ok"]
ManyMacros ==
    [kind |-> "many_macros", len |-> 6000, open_braces |-> 1, close_braces |-> 1,
     macros |-> 250, parse |-> "ok"]
ManyClosers ==
    [kind |-> "many_closers", len |-> 1500, open_braces |-> 0, close_braces |-> 1500,
     macros |-> 0, parse |-> "err"]
SomeBraces ==
    [kind |-> "some_braces", len |-> 1400, open_braces |-> 700, close_braces |-> 700,
     macros |-> 0, parse |-> "ok"]

PrefilterBulks == Bulks \cup {LargeFile, ManyAttributes, ManyMacros, ManyClosers, SomeBraces}
PrefilterTexts == UNION {[1 .. n -> LineCatalogue] : n \in 0 .. MaxPrefilterLines}
PrefilterPaths == FilePaths \cup {"tests/ui/associated-consts/a.rs"}

PrefilterInit ==
    /\ f_content \in {Content(t, b) : t \in PrefilterTexts, b \in PrefilterBulks}
    /\ f_path \in PrefilterPaths
    /\ f_route = [tier |-> "not_run", result |-> NotRun]

PrefilterIdle ==
    /\ f_content = Content(<<>>, NoBulk)
    /\ f_path = ""
    /\ f_route = [tier |-> "not_run", result |-> NotRun]

\* parallel_processor.rs lines 55-63: a file the pre-filter flags goes to
\* extract_derives_text_only, any other to extract_derives.
ProcessFileSafely ==
    /\ f_route.tier = "not_run"
    /\ f_route' = IF should_use_text_only_parsing(f_content, f_path)
                  THEN [tier |-> "text_only",
                        result |-> extract_derives_text_only(f_content, Repository, f_path)]
                  ELSE [tier |-> "standard",
                        result |-> extract_derives(f_content, Repository, f_path)]
    /\ UNCHANGED <<f_content, f_path>>
    /\ UNCHANGED notPrefilter

PrefilterNext == ProcessFileSafely

(***************************************************************************)
(*                   ResultsPersistence::save_summary                      *)
(***************************************************************************)

\* Bounds of the model: the repositories of an input, and the derive
\* statements of one repository.
MaxSummaryRepos == 22
MaxPerRepo == 3

\* persistence.rs lines 86-87: take(20).
TopN == 20

\* The names of the model: repository i and the identifier only repository
\* i derives.
RepoName(i) == "owner/r" \o ToString(i)
TraitName(i) == "Trait" \o ToString(i)

\* The derive statement of a repository: what save_summary reads of it.
SummaryStatement(i, names) == [repository |-> RepoName(i), derives |-> names]

\* How many derive statements repository i has in an input of a given shape.
Shapes == {"flat", "cycle", "last_heavy", "first_heavy"}
PerRepo(shape, i, n) ==
    CASE shape = "flat" -> 1
      [] shape = "cycle" -> (i % MaxPerRepo) + 1
      [] shape = "last_heavy" -> IF i = n THEN MaxPerRepo ELSE 1
      [] shape = "first_heavy" -> IF i = 1 THEN MaxPerRepo ELSE 1

\* The statements of repository i: each derives the repository's own
\* identifier and Clone; the second one derives Clone twice.
RepoStatements(i, k) ==
    [j \in 1 .. k |->
        SummaryStatement(i, IF j = 2 THEN <<"Clone", TraitName(i), "Clone">>
                            ELSE <<TraitName(i), "Clone">>)]

RECURSIVE SummaryInput(_, _, _)
SummaryInput(shape, i, n) ==
    IF i > n THEN <<>>
    ELSE RepoStatements(i, PerRepo(shape, i, n)) \o SummaryInput(shape, i + 1, n)

SummaryInputs == {SummaryInput(shape, 1, n) : shape \in Shapes, n \in 0 .. MaxSummaryRepos}

\* The order in which a HashMap hands out its entries is not fixed: the
\* model takes the entries by ascending index, by descending index, or the
\* even indices before the odd ones; Clone comes first or last.
HashOrders == {"ascending", "descending", "evens_first"}

RECURSIVE Indices(_, _)
Indices(order, n) ==
    IF n = 0 THEN <<>>
    ELSE CASE order = "ascending" -> Append(Indices(order, n - 1), n)
           [] order = "descending" -> <<n>> \o Indices(order, n - 1)
           [] order = "evens_first" ->
                 IF n % 2 = 0 THEN <<n>> \o Indices(order, n - 1)
                 ELSE Append(Indices(order, n - 1), n)

\* The entries of a map, as <<key, count>>, in the order of a key sequence.
RECURSIVE Entries(_, _)
Entries(keys, map) ==
    IF keys = <<>> THEN <<>>
    ELSE (IF Head(keys) \in DOMAIN map THEN <<<<Head(keys), map[Head(keys)]>>>> ELSE <<>>)
         \o Entries(Tail(keys), map)

\* Lines 75 and 78: derive_counts.into_iter().collect() and
\* repo_counts.into_iter().collect().
RepoEntries(order, map) ==
    Entries([i \in 1 .. MaxSummaryRepos |-> RepoName(Indices(order, MaxSummaryRepos)[i])], map)
DeriveEntries(order, map) ==
    LET traits == [i \in 1 .. MaxSummaryRepos |->
                      TraitName(Indices(order, MaxSummaryRepos)[i])]
    IN  Entries(IF order = "descending" THEN <<"Clone">> \o traits
                ELSE Append(traits, "Clone"), map)

\* The entry set to one whatever it held.
Bump_NoModify(map, key) ==
    [k \in DOMAIN map \cup {key} |-> IF k = key THEN 1 ELSE map[k]]

\* Lines 63-65 and 68-70: entry(key).and_modify(|e| *e += 1).or_insert(1).
Bump(map, key) ==
    IF key \in DOMAIN map THEN [map EXCEPT ![key] = @ + 1]
    ELSE [k \in DOMAIN map \cup {key} |-> IF k = key THEN 1 ELSE map[k]]

RECURSIVE BumpAll(_, _)
BumpAll(map, keys) ==
    IF keys = <<>> THEN map ELSE BumpAll(Bump(map, Head(keys)), Tail(keys))

\* Lines 61-72: the loop over the derive statements.
RECURSIVE CountLoop(_, _)
CountLoop(derives, acc) ==
    IF derives = <<>> THEN acc
    ELSE CountLoop(Tail(derives),
                   [total_statements |-> acc.total_statements + 1,
                    repo_counts |-> Bump(acc.repo_counts, Head(derives).repository),
                    derive_counts |-> BumpAll(acc.derive_counts, Head(derives).derives)])

EmptyCounts == [total_statements |-> 0, repo_counts |-> <<>>, derive_counts |-> <<>>]

\* The entries with a given count, in the order they have.
WithCount(entries, c) == SelectSeq(entries, LAMBDA e : e[2] = c)

RECURSIVE SortFrom(_, _)
SortFrom(entries, c) ==
    IF c = 0 THEN <<>> ELSE WithCount(entries, c) \o SortFrom(entries, c - 1)

RECURSIVE MaxCount(_)
MaxCount(entries) ==
    IF entries = <<>> THEN 0 ELSE Max(Head(entries)[2], MaxCount(Tail(entries)))

\* The sort that puts the smallest count first.
RECURSIVE SortUp(_, _, _)
SortUp(entries, c, top) ==
    IF c > top THEN <<>> ELSE WithCount(entries, c) \o SortUp(entries, c + 1, top)
sort_by_Ascending(entries) == SortUp(entries, 1, MaxCount(entries))

\* Lines 76 and 79: sort_by(|a, b| b.1.cmp(&a.1)), a stable sort on the count,
\* largest first.
sort_by(entries) == SortFrom(entries, MaxCount(entries))

\* Lines 86-87: into_iter().take(20).
Take(entries, n) == SubSeq(entries, 1, Min(n, Len(entries)))

\* Lines 82-89: the summary; analysis_timestamp, the time of the call, is left
\* out.
Summary(derives, order) ==
    LET counts == CountLoop(derives, EmptyCounts)
        sorted_derives == sort_by(DeriveEntries(order.derives, counts.derive_counts))
        sorted_repos == sort_by(RepoEntries(order.repos, counts.repo_counts))
    IN  [total_derive_statements |-> counts.total_statements,
         total_repositories |-> Len(sorted_repos),
         total_unique_derives |-> Len(sorted_derives),
         most_common_derives |-> Take(sorted_derives, TopN),
         repositories_by_derive_count |-> Take(sorted_repos, TopN)]

NoSummary ==
    [total_derive_statements |-> 0, total_repositories |-> 0, total_unique_derives |-> 0,
     most_common_derives |-> <<>>, repositories_by_derive_count |-> <<>>]

SummaryInit ==
    /\ u_derives \in SummaryInputs
    /\ u_order \in [derives : HashOrders, repos : HashOrders]
    /\ u_summary = [status |-> "not_run", summary |-> NoSummary]

SummaryIdle ==
    /\ u_derives = <<>>
    /\ u_order = [derives |-> "ascending", repos |-> "ascending"]
    /\ u_summary = [status |-> "not_run", summary |-> NoSummary]

\* Lines 50-97: save_summary writes the summary and returns Ok.
SaveSummary ==
    /\ u_summary.status = "not_run"
    /\ u_summary' = [status |-> "saved", summary |-> Summary(u_derives, u_order)]
    /\ UNCHANGED <<u_derives, u_order>>
    /\ UNCHANGED notSummary

\* Lines 91-93: the file cannot be created or written; save_summary returns
\* the error.
SaveSummaryFails ==
    /\ u_summary.status = "not_run"
    /\ u_summary' = [status |-> "failed", summary |-> NoSummary]
    /\ UNCHANGED <<u_derives, u_order>>
    /\ UNCHANGED notSummary

SummaryNext == SaveSummary \/ SaveSummaryFails

(***************************************************************************)
(*     RepositoryProcessor::process: tasks for one repository key          *)
(***************************************************************************)

\* The target directory cache_root/<sanitized full_name> of the key: not
\* there, a leftover that is no working copy, there while a git clone of one
\* of the workers fills it, a finished working copy.
DirStates == {"absent", "invalid", "partial", "complete"}

\* parallel_processor.rs lines 103-108: every worker is handed a task for the
\* same key and builds its own RepositoryCache, whose map is empty, so
\* make_space_if_needed evicts nothing and clone_repository is reached; the
\* task list holds MaxTasks tasks for the key.
SameKeyInit ==
    /\ x_dir \in DirStates \ {"partial"}
    /\ x_pc = [w \in Workers |-> "check"]
    /\ x_seen = [w \in Workers |-> "none"]
    /\ x_left = MaxTasks - NumWorkers

SameKeyIdle ==
    /\ x_dir = "absent"
    /\ x_pc = [w \in Workers |-> "off"]
    /\ x_seen = [w \in Workers |-> "none"]
    /\ x_left = 0

\* repo_cache.rs lines 183-200: .git exists and git status succeeds. In a
\* directory that a git clone is still filling either test can go both ways.
ValidOutcomes(dir) ==
    IF dir = "complete" THEN {TRUE} ELSE IF dir = "partial" THEN BOOLEAN ELSE {FALSE}

\* repo_cache.rs lines 74-77: repo_dir.exists() && is_valid_git_repo: the
\* directory is returned as it is; otherwise the call goes on to line 80.
CloneCheck(w) ==
    /\ x_pc[w] = "check"
    /\ \E valid \in ValidOutcomes(x_dir) :
           x_pc' = [x_pc EXCEPT ![w] = IF valid THEN "scan" ELSE "remove"]
    /\ UNCHANGED <<x_dir, x_seen, x_left>>
    /\ UNCHANGED notSameKey

\* repo_cache.rs lines 80-85: a directory that is there is removed with
\* remove_dir_all; a failed removal is only logged.
CloneRemove(w) ==
    /\ x_pc[w] = "remove"
    /\ \E ok \in (IF x_dir = "absent" THEN {TRUE} ELSE BOOLEAN) :
           x_dir' = IF ok THEN "absent" ELSE x_dir
    /\ x_pc' = [x_pc EXCEPT ![w] = "spawn"]
    /\ UNCHANGED <<x_seen, x_left>>
    /\ UNCHANGED notSameKey

\* repo_cache.rs lines 90-98: git clone is started. It makes the directory
\* when there is none; it refuses a directory that is there and not empty,
\* and goes ahead in one that another clone has made and not yet filled.
CloneSpawn(w) ==
    /\ x_pc[w] = "spawn"
    /\ \E empty \in (IF x_dir = "absent" THEN {TRUE}
                     ELSE IF x_dir = "partial" THEN BOOLEAN ELSE {FALSE}) :
           /\ x_pc' = [x_pc EXCEPT ![w] = IF empty THEN "cloning" ELSE "failed"]
           /\ x_dir' = IF empty THEN "partial" ELSE x_dir
    /\ UNCHANGED <<x_seen, x_left>>
    /\ UNCHANGED notSameKey

\* repo_cache.rs lines 99-111: git clone exits: with success, and the working
\* copy is complete, or with an error (lines 102-108); a clone whose directory
\* has been removed under it fails.
CloneExit(w) ==
    /\ x_pc[w] = "cloning"
    /\ \E ok \in (IF x_dir = "absent" THEN {FALSE} ELSE BOOLEAN) :
           /\ x_pc' = [x_pc EXCEPT ![w] = IF ok THEN "scan" ELSE "failed"]
           /\ x_dir' = IF ok THEN "complete" ELSE x_dir
    /\ UNCHANGED <<x_seen, x_left>>
    /\ UNCHANGED notSameKey

\* parallel_processor.rs lines 118-163: find_rust_files and the reading of the
\* files; x_seen is the state of the tree that was enumerated, "error" when
\* read_dir fails (line 119).
FindRustFiles(w) ==
    /\ x_pc[w] = "scan"
    /\ x_pc' = [x_pc EXCEPT ![w] = IF x_dir = "absent" THEN "failed" ELSE "done"]
    /\ x_seen' = [x_seen EXCEPT ![w] = IF x_dir = "absent" THEN "error" ELSE x_dir]
    /\ UNCHANGED <<x_dir, x_left>>
    /\ UNCHANGED notSameKey

\* parallel_processor.rs lines 103-108: a worker that has finished a task is
\* handed the next one for the key and builds a new cache for it.
ProcessNext(w) ==
    /\ x_pc[w] \in {"done", "failed"}
    /\ x_left > 0
    /\ x_left' = x_left - 1
    /\ x_pc' = [x_pc EXCEPT ![w] = "check"]
    /\ x_seen' = [x_seen EXCEPT ![w] = "none"]
    /\ UNCHANGED x_dir
    /\ UNCHANGED notSameKey

SameKeyNext ==
    \E w \in Workers :
        \/ CloneCheck(w)
        \/ CloneRemove(w)
        \/ CloneSpawn(w)
        \/ CloneExit(w)
        \/ FindRustFiles(w)
        \/ ProcessNext(w)

(***************************************************************************)
(*        RustFileProcessor::process_repository (shared cache)             *)
(***************************************************************************)

\* The tasks handed to the workers, in order.
SharedTaskQueues == [1 .. MaxTasks -> Keys]

\* processor.rs line 12: one RepositoryCache behind Arc<Mutex<..>>, empty at
\* the start, over an empty cache root.
SharedInit ==
    /\ h_max \in 1 .. MaxRepos
    /\ h_queue \in SharedTaskQueues
    /\ h_map = EmptyMap
    /\ h_disk = {}
    /\ h_pc = [w \in Workers |-> "idle"]
    /\ h_path = [w \in Workers |-> <<>>]

SharedIdle ==
    /\ h_max = 0
    /\ h_queue = <<>>
    /\ h_map = EmptyMap
    /\ h_disk = {}
    /\ h_pc = [w \in Workers |-> "off"]
    /\ h_path = [w \in Workers |-> <<>>]

\* repo_cache.rs lines 114-132 and 134-151: the maps that make_space_if_needed
\* can leave behind. The count loop removes entries until fewer than
\* max_repositories are mapped, the size loop can remove more, and which
\* entries go is the HashMap's iteration order.
MapsAfterEviction(map, max) ==
    {[k \in keep |-> map[k]] : keep \in {s \in SUBSET DOMAIN map : Cardinality(s) < max}}

\* processor.rs lines 21-25: ensure_repository under the lock, which is held
\* for the whole call (repo_cache.rs lines 41-63): a hit returns the mapped
\* path; a miss drops a stale mapping, makes space, removing the directories
\* of the evicted entries, and reuses or clones the target directory.
ProcessRepositoryEnsure(w) ==
    /\ h_pc[w] \in {"idle", "done", "failed"}
    /\ h_queue # <<>>
    /\ h_queue' = Tail(h_queue)
    /\ LET k == Head(h_queue)
           hit == k \in DOMAIN h_map /\ h_map[k] \in h_disk
       IN IF hit
          THEN /\ h_path' = [h_path EXCEPT ![w] = h_map[k]]
               /\ h_pc' = [h_pc EXCEPT ![w] = "ensured"]
               /\ UNCHANGED <<h_map, h_disk>>
          ELSE \E kept \in MapsAfterEviction(MapDrop(h_map, k), h_max) :
               LET evicted == {h_map[e] : e \in (DOMAIN h_map \ {k}) \ DOMAIN kept}
                   left == h_disk \ evicted
               IN \E cloned \in (IF RepoDir(k) \in left THEN {TRUE} ELSE BOOLEAN) :
                      /\ h_disk' = IF cloned THEN left \cup {RepoDir(k)} ELSE left
                      /\ IF cloned
                         THEN /\ h_map' = MapPut(kept, k, RepoDir(k))
                              /\ h_path' = [h_path EXCEPT ![w] = RepoDir(k)]
                              /\ h_pc' = [h_pc EXCEPT ![w] = "ensured"]
                         ELSE /\ h_map' = kept
                              /\ h_path' = [h_path EXCEPT ![w] = <<>>]
                              /\ h_pc' = [h_pc EXCEPT ![w] = "failed"]
    /\ UNCHANGED h_max
    /\ UNCHANGED notShared

\* processor.rs lines 28-32: find_rust_files under the lock, taken anew; it
\* fails when the directory cannot be read.
ProcessRepositoryFind(w) ==
    /\ h_pc[w] = "ensured"
    /\ h_pc' = [h_pc EXCEPT ![w] = IF h_path[w] \in h_disk THEN "found" ELSE "failed"]
    /\ UNCHANGED <<h_max, h_queue, h_map, h_disk, h_path>>
    /\ UNCHANGED notShared

\* processor.rs lines 39-51: the files are read without the lock; a file that
\* cannot be read is logged and left out.
ProcessRepositoryRead(w) ==
    /\ h_pc[w] = "found"
    /\ h_pc' = [h_pc EXCEPT ![w] = "done"]
    /\ UNCHANGED <<h_max, h_queue, h_map, h_disk, h_path>>
    /\ UNCHANGED notShared

SharedNext ==
    \E w \in Workers :
        \/ ProcessRepositoryEnsure(w)
        \/ ProcessRepositoryFind(w)
        \/ ProcessRepositoryRead(w)

(***************************************************************************)
(*                          Specifications                                 *)
(***************************************************************************)

InitSearch ==
    SearchInit /\ CacheIdle /\ PipeIdle /\ ParserIdle /\ SummaryIdle /\ PrefilterIdle
    /\ SameKeyIdle /\ SharedIdle

SpecSearch == InitSearch /\ [][SearchNext]_vars

\* Discovery as the runtime drives it: the future of search_rust_repositories
\* is polled until it completes, every sleep elapses and every request is
\* answered or fails, so a step is taken whenever one is possible.  A page is
\* answered with 403/429 at most MaxAttempt times before another answer comes.
SpecSearchLive == InitSearch /\ [][SearchNext]_vars /\ WF_vars(SearchNext)

InitCache ==
    CacheInit /\ SearchIdle /\ PipeIdle /\ ParserIdle /\ SummaryIdle /\ PrefilterIdle
    /\ SameKeyIdle /\ SharedIdle

SpecCache == InitCache /\ [][CacheNext]_vars

InitPipeline ==
    PipeInit /\ SearchIdle /\ CacheIdle /\ ParserIdle /\ SummaryIdle /\ PrefilterIdle
    /\ SameKeyIdle /\ SharedIdle

SpecPipeline == InitPipeline /\ [][PipeNext]_vars

InitParser ==
    ParserInit /\ SearchIdle /\ CacheIdle /\ PipeIdle /\ SummaryIdle /\ PrefilterIdle
    /\ SameKeyIdle /\ SharedIdle

SpecParser == InitParser /\ [][ParserNext]_vars

InitSummary ==
    SummaryInit /\ SearchIdle /\ CacheIdle /\ PipeIdle /\ ParserIdle /\ PrefilterIdle
    /\ SameKeyIdle /\ SharedIdle

SpecSummary == InitSummary /\ [][SummaryNext]_vars

InitPrefilter ==
    PrefilterInit /\ SearchIdle /\ CacheIdle /\ PipeIdle /\ ParserIdle /\ SummaryIdle
    /\ SameKeyIdle /\ SharedIdle

SpecPrefilter == InitPrefilter /\ [][PrefilterNext]_vars

InitSameKey ==
    SameKeyInit /\ SearchIdle /\ CacheIdle /\ PipeIdle /\ ParserIdle /\ SummaryIdle
    /\ PrefilterIdle /\ SharedIdle

SpecSameKey == InitSameKey /\ [][SameKeyNext]_vars

InitShared ==
    SharedInit /\ SearchIdle /\ CacheIdle /\ PipeIdle /\ ParserIdle /\ SummaryIdle
    /\ PrefilterIdle /\ SameKeyIdle

SpecShared == InitShared /\ [][SharedNext]_vars

(***************************************************************************)
(*                              Claims                                     *)
(***************************************************************************)

\* C1: for every limit, every min_stars and every sequence of server
\* responses, a search that returns successfully returns at most
\* min(limit, 1000) descriptors.
C1_AtMostMinLimitCap ==
    s_pc = "ok" => Len(repositories) <= (IF s_limit <= 1000 THEN s_limit ELSE 1000)

\* C1 witness: a search with limit above 1000 returns exactly 1000 descriptors.
C1_Witness == s_pc = "ok" /\ s_limit > 1000 /\ Len(repositories) = 1000

\* C2: on one cache instance the number of entries of active_repos never
\* exceeds max_repositories, during and after every ensure_repository call,
\* whatever the call returns.
C2_ActiveWithinMax == Cardinality(DOMAIN active_repos) <= max_repositories

\* C2 witness: a call that evicted has returned a path and the map is full.
C2_Witness ==
    /\ c_pc = "idle" /\ c_calls >= 2
    /\ c_ran.evict /\ c_ret.status = "ok"
    /\ Cardinality(DOMAIN active_repos) = max_repositories

\* The step in which an ensure_repository call returns.
EnsureReturns == c_pc' = "idle" /\ (c_pc # "idle" \/ c_calls' = c_calls + 1)

\* C3 (as claimed): when an ensure_repository call returns, the size of the
\* cache root is at most max_size_gb, unless active_repos was empty when the
\* call began.
C3_SizeWithinMaxAtReturn ==
    [][(EnsureReturns /\ ~c_started_empty') => DiskSize(disk') <= max_size_gb']_vars

\* C4: ensure_repository on a key that is mapped and whose path exists returns
\* the mapped path in one step, runs no eviction, no validity check and no git
\* clone, and leaves active_repos and the disk as they were.
C4_HitLeavesAllUnchanged ==
    [][\A k \in Keys :
          (/\ c_pc = "idle" /\ c_calls' = c_calls + 1 /\ c_key' = k
           /\ k \in DOMAIN active_repos /\ active_repos[k] \in DOMAIN disk)
          => (/\ c_pc' = "idle"
              /\ c_ret' = EnsureResult("ok", active_repos[k], "")
              /\ c_ran' = RanNothing
              /\ active_repos' = active_repos
              /\ disk' = disk)]_vars

\* C4 witness: a call on a mapped key has returned its path having run nothing.
C4_Witness ==
    /\ c_pc = "idle" /\ c_calls >= 2
    /\ c_ret.status = "ok"
    /\ c_ran = RanNothing
    /\ c_key \in DOMAIN active_repos /\ c_ret.path = active_repos[c_key]
    /\ c_ret.path \in DOMAIN disk

\* The number of derive statements in the readable files of a repository.
RECURSIVE DerivesIn(_)
DerivesIn(files) ==
    IF files = <<>> THEN 0
    ELSE (IF Head(files).readable THEN Head(files).derives ELSE 0) + DerivesIn(Tail(files))

\* The step in which task t's process call returns Ok.
TaskSucceeds(t) == p_outcome[t].status = "pending" /\ p_outcome'[t].status = "ok"

\* C5: a task whose ensure_repository fails returns a clone error for that
\* repository only: the step appends nothing to the store, writes no
\* checkpoint and touches no other task or worker; and when main aggregates,
\* every task has been processed, each task whose clone succeeded with the
\* outcome its own repository gives.
C5_CloneFailureIsolated ==
    [][/\ \A w \in Workers :
             (/\ w_pc[w] = "ensure" /\ tasks[w_task[w]].clone = "fail"
              /\ w_pc'[w] # "ensure")
             => (/\ p_outcome'[w_task[w]].status = "clone_error"
                 /\ results_storage' = results_storage
                 /\ checkpoint' = checkpoint
                 /\ ckpt_attempts' = ckpt_attempts
                 /\ \A t \in DOMAIN p_outcome \ {w_task[w]} : p_outcome'[t] = p_outcome[t]
                 /\ \A v \in Workers \ {w} :
                        w_pc'[v] = w_pc[v] /\ w_task'[v] = w_task[v]
                        /\ w_result'[v] = w_result[v])
       /\ m_pc' = "aggregated" =>
             \A t \in DOMAIN tasks :
                 /\ p_outcome'[t].status # "pending"
                 /\ tasks[t].clone = "ok" =>
                        /\ p_outcome'[t].status =
                               (IF tasks[t].find = "ok" THEN "ok" ELSE "file_access_error")
                        /\ tasks[t].find = "ok" =>
                               /\ p_outcome'[t].result.repo_name = tasks[t].full_name
                               /\ Len(p_outcome'[t].result.derive_statements)
                                      = DerivesIn(tasks[t].files)]_vars

\* C5 witness: the run is over, one task failed to clone and another task,
\* handed out after it, returned derive statements.
C5_Witness ==
    /\ m_pc = "aggregated"
    /\ \E t, u \in DOMAIN tasks :
           /\ t < u
           /\ p_outcome[t].status = "clone_error"
           /\ p_outcome[u].status = "ok"
           /\ p_outcome[u].result.derive_statements # <<>>

\* C6 (as claimed): every task that completes successfully has appended
\* exactly one RepositoryResult, so the store has as many entries as there are
\* successful tasks.
C6_OneEntryPerSuccess == Len(results_storage) = successful

\* The derive statements of the tasks that returned Ok, counted.
RECURSIVE OkDerives(_, _)
OkDerives(outcome, t) ==
    IF t = 0 THEN 0
    ELSE (IF outcome[t].status = "ok" THEN Len(outcome[t].result.derive_statements) ELSE 0)
         + OkDerives(outcome, t - 1)

\* C7: when main has aggregated, successful + failed is the number of tasks
\* and main's all_derives holds as many derive statements as the results
\* returned by the successful tasks hold together; one clone failure, one
\* repository without source files and one with 1 + 2 occurrences give
\* 2 successful, 1 failed and 3 derive statements.
C7_CountsAndTotals ==
    m_pc = "aggregated" =>
        /\ successful + failed = Len(tasks)
        /\ Len(all_derives) = OkDerives(p_outcome, Len(tasks))
        /\ (/\ Len(tasks) = 3
            /\ {tasks[t].full_name : t \in DOMAIN tasks}
                   = {"clone_fails", "no_files", "two_files"})
           => (successful = 2 /\ failed = 1 /\ Len(all_derives) = 3)

\* C7 witness: the three repositories of the example have been aggregated.
C7_Witness ==
    /\ m_pc = "aggregated"
    /\ Len(tasks) = 3
    /\ {tasks[t].full_name : t \in DOMAIN tasks} = {"clone_fails", "no_files", "two_files"}
    /\ Len(all_derives) = 3

C9_AlwaysReturnsFindings ==
    /\ r_extract.status # "aborted"
    /\ (r_extract.status = "returned" /\ r_extract.via \in {"syntax_error", "panic"})
          => r_extract.derives
                = extract_derives_text_based(r_content.text, 0, Repository, r_path)

\* C10: for a content that is one derive attribute of plain identifiers on a
\* line of its own (after blank lines, indented or not) followed by a
\* top-level struct, extract_derives and extract_derives_text_only each return
\* exactly one finding, with the identifiers in written order, the 1-based
\* line of the attribute and that line verbatim.
C10_SingleDeriveBothTiers ==
    \A lead \in 0 .. (MaxLines - 2), a \in PlainAttrs, s \in StructLines :
        r_content = Content([i \in 1 .. lead |-> ""] \o <<AttrLine(a[1], a[2]), s>>, NoBulk)
        => /\ r_extract # NotRun =>
                 r_extract.derives = <<DeriveStatement(Repository, r_path, lead + 1, a[2],
                                                       AttrLine(a[1], a[2]))>>
           /\ r_extract.status # "aborted"
           /\ r_text_only # NotRun =>
                 r_text_only.derives = <<DeriveStatement(Repository, r_path, lead + 1, a[2],
                                                         AttrLine(a[1], a[2]))>>

\* C10 witness: on a blank line, #[derive(Clone, Copy)] and struct S; both
\* tiers have run, extract_derives through the structured parse, and both
\* returned the one finding at line 2.
C10_Witness ==
    /\ r_content = Content(<<"", "#[derive(Clone, Copy)]", "struct S;">>, NoBulk)
    /\ r_extract.via = "structured"
    /\ r_text_only.status = "returned"
    /\ r_extract.derives = <<DeriveStatement(Repository, r_path, 2, <<"Clone", "Copy">>,
                                             "#[derive(Clone, Copy)]")>>
    /\ r_text_only.derives = r_extract.derives

RetryStep == s_pc = "request" /\ s_response'.status \in {403, 429}

\* A step in which a request was answered with a success status and a body
\* that parsed.
SuccessStep ==
    /\ s_pc = "request"
    /\ s_response'.status = 200
    /\ s_response'.body.text = "items"

\* C12: every request is for the current page; a 403/429 answer leaves the
\* page counter and the collected descriptors as they were and the next step
\* requests the same page again; the page counter moves and descriptors are
\* appended only in a step that received a success response, the counter moves
\* by one, the descriptors appended are those of the page requested, and the
\* last descriptor collected before is of an earlier page.
C12_RetrySamePage ==
    [][/\ s_pc = "request" => s_request'.page = page
       /\ RetryStep =>
             /\ s_pc' = "request"
             /\ page' = page
             /\ repositories' = repositories
             /\ s_sleep' # NoSleep
       /\ (page >= 1 /\ (page' # page \/ repositories' # repositories)) =>
             /\ SuccessStep
             /\ page' \in {page, page + 1}
             /\ Len(repositories') >= Len(repositories)
             /\ SubSeq(repositories', 1, Len(repositories)) = repositories
             /\ \A i \in Len(repositories) + 1 .. Len(repositories') :
                   repositories'[i][1] = page
             /\ repositories # <<>> => repositories[Len(repositories)][1] < page]_vars

\* C12 witness: page 1 was answered with 403/429 twice and then with a full
\* page; its per_page descriptors are collected once and the counter is at 2.
C12_Witness ==
    /\ s_pc = "loop"
    /\ attempt = 2
    /\ page = 2
    /\ s_request.page = 1
    /\ per_page = PageSizeCap
    /\ Len(repositories) = per_page
    /\ \A i \in 1 .. per_page : repositories[i] = <<1, i>>

\* C13: attempt is 0 when a page's first request is sent and changes only by
\* one per 403/429 answer, so it counts the 403/429 answers of the current
\* page; a 403/429 answer without a usable Retry-After sleeps a base of
\* 2^min(attempt, 6) seconds and nothing else, which is at most 64 and at
\* least every backoff base an earlier 403/429 answer of the page had.
C13_BackoffBase ==
    [][/\ (s_pc = "loop" /\ s_pc' = "request") => attempt' = 0
       /\ attempt' # attempt => (RetryStep \/ (s_pc = "loop" /\ s_pc' = "request"))
       /\ RetryStep => attempt' = attempt + 1
       /\ (RetryStep /\ s_sleep'[1].why = "backoff") =>
             /\ Len(s_sleep') = 1
             /\ s_sleep'[1].base = 2 ^ (IF attempt' <= 6 THEN attempt' ELSE 6)
             /\ s_sleep'[1].base <= 64
             /\ \A a \in 1 .. attempt' :
                   2 ^ (IF a <= 6 THEN a ELSE 6) <= s_sleep'[1].base]_vars

\* C13 witness: the seventh 403/429 answer for a page other than the first
\* came without a usable Retry-After and the base wait is 64 s.
C13_Witness ==
    /\ s_pc = "request"
    /\ page = 2
    /\ attempt = 7
    /\ s_sleep = <<[why |-> "backoff", base |-> 64]>>

\* What search_rust_repositories returns (lines 122 and 152): Ok with the
\* descriptors, or Err with the error; the descriptors collected are dropped
\* with the frame on Err.
SearchResult ==
    IF s_pc = "ok" THEN [ok |-> TRUE, repositories |-> repositories]
    ELSE IF s_pc = "err" THEN [ok |-> FALSE, error |-> s_error]
    ELSE [ok |-> FALSE]

\* C14: an answer whose status is neither success nor 403/429 ends the call
\* with an error made of that status and, when the body can be read, that
\* body; the result then holds no descriptors, and after an error no step is
\* taken, so no further request is sent.
C14_FatalStatusReturnsError ==
    [][/\ (s_pc = "request" /\ s_response'.status \notin {0, 200, 403, 429}) =>
             /\ s_pc' = "err"
             /\ s_error'.kind = "status"
             /\ s_error'.status = s_response'.status
             /\ s_response'.body.readable => s_error'.body = s_response'.body.text
             /\ SearchResult' = [ok |-> FALSE, error |-> s_error']
             /\ s_sleep' = NoSleep
       /\ s_pc # "err"]_vars

\* C14 witness: page 2 was answered with 422 after page 1 had given per_page
\* descriptors; the call returned the error with the status and the body.
C14_Witness ==
    /\ s_pc = "err"
    /\ page = 2
    /\ Len(repositories) = PageSizeCap
    /\ s_request.page = 2
    /\ SearchResult = [ok |-> FALSE,
                       error |-> [kind |-> "status", status |-> 422, body |-> "Validation Failed"]]

\* C15: a success response whose page holds fewer items than per_page ends
\* the call: the result is Ok with the descriptors collected up to and
\* including that page, however few, the inter-page sleep is not taken, and
\* after the return no step is taken, so no further page is requested.
C15_ShortPageEnds ==
    [][/\ (SuccessStep /\ s_response'.items < per_page) =>
             /\ s_pc' = "ok"
             /\ page' = page
             /\ SearchResult' = [ok |-> TRUE, repositories |-> repositories']
             /\ \A i \in 1 .. Len(s_sleep') : s_sleep'[i].why # "interpage"
       /\ s_pc # "ok"]_vars

\* C15 witness: with limit above 1000, page 1 was full and page 2 came with
\* per_page - 1 items; the call returned the 199 descriptors.
C15_Witness ==
    /\ s_pc = "ok"
    /\ s_limit > SearchCap
    /\ s_request.page = 2
    /\ s_response.items = per_page - 1
    /\ Len(repositories) = 2 * per_page - 1
    /\ Len(repositories) < desired
    /\ SearchResult.repositories = repositories

\* Descriptor <<p, i>> comes before <<q, j>>: an earlier page, or the same page
\* and an earlier place in it.
Before(a, b) == a[1] < b[1] \/ (a[1] = b[1] /\ a[2] < b[2])

\* C16: the first request is for page 1 and every request is for the page of
\* the request before it or for the next one; descriptors are only appended,
\* each after a descriptor of an earlier page or of an earlier place in the
\* same page, so that the result is in page order and then in-page order; and
\* the number of the last page requested, which is the number of distinct
\* pages requested, is at most 10 and at most ceil(min(limit, 1000) / per_page).
C16_PagesAscendingAndBounded ==
    /\ [][/\ s_pc = "request" =>
                /\ s_request'.page \in {s_request.page, s_request.page + 1}
                /\ s_request'.page >= 1
          /\ repositories' # repositories =>
                /\ SubSeq(repositories', 1, Len(repositories)) = repositories
                /\ \A i \in Len(repositories) + 1 .. Len(repositories') :
                      i > 1 => Before(repositories'[i - 1], repositories'[i])]_vars
    /\ [](/\ Len(repositories) <= 1 \/
                Before(repositories[1], repositories[Len(repositories)])
          /\ s_request.page >= 1 =>
                /\ s_request.page <= 10
                /\ (s_request.page - 1) * per_page
                      < (IF s_limit <= 1000 THEN s_limit ELSE 1000))

\* C16 witness: with limit above 1000 the pages 1 to 10 were requested and
\* the call returned 1000 descriptors, from <<1, 1>> to <<10, 100>>.
C16_Witness ==
    /\ s_pc = "ok"
    /\ s_request.page = PageCap
    /\ Len(repositories) = SearchCap
    /\ repositories[1] = <<1, 1>>
    /\ repositories[PageSizeCap + 1] = <<2, 1>>
    /\ repositories[SearchCap] = <<PageCap, PageSizeCap>>

\* A step in which a request was answered with a success status and
\* X-RateLimit-Remaining: 0.
ZeroRemainingStep ==
    /\ s_pc = "request"
    /\ s_response'.status = 200
    /\ s_response'.ratelimit.remaining = "zero"

\* The items of the response of this step were consumed: the descriptors grew
\* by the number of items of the page, up to desired.
ItemsConsumed ==
    /\ s_pc' \in {"loop", "ok"}
    /\ Len(repositories') =
          (IF Len(repositories) + s_response'.items <= desired
           THEN Len(repositories) + s_response'.items ELSE desired)

AdmittedIsTheMap ==
    /\ {c_admitted[i] : i \in 1 .. Len(c_admitted)} = DOMAIN active_repos
    /\ Len(c_admitted) = Cardinality(DOMAIN active_repos)

\* C18: an eviction of make_space_if_needed (count loop or size loop) removes
\* the entry that was inserted earliest among those mapped.
C18_EvictsInInsertionOrder ==
    [][(c_pc \in {"count", "size"} /\ DOMAIN active_repos' # DOMAIN active_repos) =>
          DOMAIN active_repos' = DOMAIN active_repos \ {Head(c_admitted)}]_vars

\* C19: between two calls the worker's cache keeps its map (the instance
\* persists from one task to the next), and a call never raises the number of
\* directories under the cache root above max_repositories (earlier clones
\* are evicted first).
C19_InstancePersistsAndBoundsDisk ==
    [][/\ (c_pc = "idle" /\ c_pc' = "idle" /\ c_calls' = c_calls) =>
             active_repos' = active_repos
       /\ Cardinality(DOMAIN disk') > Cardinality(DOMAIN disk) =>
             Cardinality(DOMAIN disk') <= max_repositories]_vars

\* The step that ends a call that reached clone_repository.
CloneStepEnds == c_pc = "clone" /\ c_pc' = "idle"

\* The step maps the target directory as it is and returns it, and git clone
\* is not run.
ReusedAsIs ==
    /\ c_ret' = EnsureResult("ok", RepoDir(c_key), "")
    /\ active_repos' = MapPut(active_repos, c_key, RepoDir(c_key))
    /\ c_ran'.clone = FALSE
    /\ disk' = disk

EnsureBegins(k) == c_pc = "idle" /\ c_calls' = c_calls + 1 /\ c_key' = k

\* C21: a call for a key that is mapped to a path that is gone removes the
\* mapping, touches nothing else, and goes on to the admission step as a call
\* for an unmapped key does; a call that began so and succeeds ends with the
\* key mapped to the path returned, which exists.
C21_StaleMappingIsAMiss ==
    [][/\ \A k \in Keys :
             (EnsureBegins(k) /\ k \in DOMAIN active_repos
              /\ active_repos[k] \notin DOMAIN disk) =>
                /\ active_repos' = MapDrop(active_repos, k)
                /\ c_pc' = "count"
                /\ c_ran'.stale
                /\ disk' = disk
                /\ c_ret' = c_ret
       /\ (c_pc # "idle" /\ c_pc' = "idle" /\ c_ran'.stale /\ c_ret'.status = "ok") =>
             /\ c_key \in DOMAIN active_repos'
             /\ active_repos'[c_key] = c_ret'.path
             /\ c_ret'.path \in DOMAIN disk'
             /\ (c_ran'.clone \/ c_ran'.valid)]_vars

\* C21 witness: a call for a key whose mapped path had vanished removed the
\* mapping, ran git clone and returned the path, which is mapped and exists.
C21_Witness ==
    /\ c_pc = "idle"
    /\ c_ran.stale
    /\ c_ran.clone
    /\ c_ret.status = "ok"
    /\ active_repos[c_key] = c_ret.path
    /\ c_ret.path \in DOMAIN disk

\* C22: when git clone exits non-zero the call returns the clone error with
\* the captured stderr in its message and leaves the map as it was, without
\* the key; the next call for that key on this map is a miss, and when it
\* reaches clone_repository it runs git clone again.
C22_CloneFailureNotMapped ==
    [][/\ (c_pc = "clone" /\ c_ran'.exit = "nonzero") =>
             /\ c_pc' = "idle"
             /\ c_ret'.status = "git_error"
             /\ c_ret'.message = "Git clone failed: " \o c_ran'.stderr
             /\ active_repos' = active_repos
             /\ c_key \notin DOMAIN active_repos'
       /\ \A k \in Keys :
             (EnsureBegins(k) /\ c_ret.status = "git_error" /\ c_key = k) =>
                c_pc' = "count" /\ c_ran'.retry
       /\ (c_pc = "clone" /\ c_pc' = "idle" /\ c_ran.retry
           /\ c_ret'.message # "Failed to create cache directory") =>
             c_ran'.clone]_vars

\* C22 witness: git clone exited non-zero with a message on stderr, the error
\* returned carries it, the key is not mapped; the next call for the key ran
\* git clone again, which succeeded.
C22_Witness ==
    /\ c_pc = "idle"
    /\ c_ran.retry
    /\ c_ran.clone
    /\ c_ran.exit = "zero"
    /\ c_ret.status = "ok"
    /\ c_key \in DOMAIN active_repos

\* The step in which worker w leaves the store block of process.
StoreStep(w) == w_pc[w] = "store" /\ w_pc'[w] # "store"

\* The store never loses a result.
StoreGrows ==
    /\ Len(results_storage') >= Len(results_storage)
    /\ SubSeq(results_storage', 1, Len(results_storage)) = results_storage

\* C23: a checkpoint write that fails (the checkpoint is not left holding the
\* derive statements of the store) does not fail the task: process returns Ok
\* with the result, which is in the store and stays there; no other worker
\* and no pending task is touched, and main aggregates all the stored results
\* once every task has been processed.
C23_CheckpointFailureNotFatal ==
    [][/\ \A w \in Workers :
             (/\ StoreStep(w)
              /\ CheckpointDue(AllDerives(Append(results_storage, w_result[w])))
              /\ checkpoint' # Written(AllDerives(Append(results_storage, w_result[w]))))
             => (/\ p_outcome'[w_task[w]] = [status |-> "ok", result |-> w_result[w]]
                 /\ successful' = successful + 1
                 /\ failed' = failed
                 /\ results_storage' = Append(results_storage, w_result[w])
                 /\ ckpt_attempts' = ckpt_attempts + 1
                 /\ <<m_pc', p_next', tasks'>> = <<m_pc, p_next, tasks>>
                 /\ \A t \in DOMAIN p_outcome \ {w_task[w]} : p_outcome'[t] = p_outcome[t]
                 /\ \A v \in Workers \ {w} :
                        w_pc'[v] = w_pc[v] /\ w_task'[v] = w_task[v]
                        /\ w_result'[v] = w_result[v])
       /\ StoreGrows
       /\ (m_pc = "processing" /\ m_pc' = "aggregated") =>
             /\ all_derives' = AllDerives(results_storage)
             /\ \A t \in DOMAIN tasks : p_outcome[t].status # "pending"
       /\ (artifacts'.json # artifacts.json /\ ~artifacts'.json.torn) =>
             artifacts'.json = Written(AllDerives(results_storage))]_vars

\* C23 witness: every checkpoint write failed, the last of them for a task
\* that was not the first to store; all tasks returned Ok and main saved the
\* derive statements of the whole store and returned Ok.
C23_Witness ==
    /\ m_pc = "returned" /\ m_ret = "ok"
    /\ ckpt_attempts >= 2
    /\ ~checkpoint.written
    /\ successful = Len(tasks) /\ Len(results_storage) = Len(tasks)
    /\ artifacts.json = Written(AllDerives(results_storage))

\* The step in which a save of the final export fails.
FinalSaveFails == m_pc \in {"aggregated", "json_saved", "csv_saved"} /\ m_ret' = "err"

\* C24: the final artifacts are written in the order full dump, tabular
\* dump, summary; a save that fails makes main return the error at once: the
\* artifacts after it are not written, the completion message is not printed
\* and main takes no further step.
C24_FinalSaveFailureAborts ==
    [][/\ FinalSaveFails =>
             /\ m_pc' = "returned"
             /\ ~m_reported'
             /\ m_pc = "aggregated" =>
                    (/\ artifacts'.json # Written(all_derives)
                     /\ artifacts'.csv = NoCheckpoint /\ artifacts'.summary = NoCheckpoint)
             /\ m_pc = "json_saved" =>
                    (/\ artifacts'.json = artifacts.json
                     /\ artifacts'.csv # Written(all_derives)
                     /\ artifacts'.summary = NoCheckpoint)
             /\ m_pc = "csv_saved" =>
                    (/\ artifacts'.json = artifacts.json /\ artifacts'.csv = artifacts.csv
                     /\ artifacts'.summary # Written(all_derives))
       /\ m_pc = "returned" => vars' = vars
       /\ artifacts'.csv.written => artifacts'.json = Written(all_derives')
       /\ artifacts'.summary.written => artifacts'.csv = Written(all_derives')
       /\ m_ret' = "err" => ~m_reported']_vars

\* C24 witness: the full dump was saved, the tabular dump's write failed and
\* left a torn file; main returned the error without the summary and without
\* the completion message.
C24_Witness ==
    /\ m_pc = "returned" /\ m_ret = "err" /\ ~m_reported
    /\ artifacts.json = Written(all_derives)
    /\ artifacts.csv = Torn
    /\ artifacts.summary = NoCheckpoint

\* The step in which main returns.
MainReturns == m_pc # "returned" /\ m_pc' = "returned"

\* No file has been written to the output directory: no final artifact and no
\* incremental snapshot (nor was a write of one attempted).
NothingWritten == artifacts = NoArtifacts /\ checkpoint = NoCheckpoint /\ ckpt_attempts = 0

\* C25 (as claimed): whenever main returns from a run without findings (no
\* repository discovered, or no derive statement in any processed
\* repository), it returns Ok and no artifact has been written.
C25_ZeroFindingsSuccessNoArtifacts ==
    (m_pc = "returned" /\ AllDerives(results_storage) = <<>>)
        => (m_ret = "ok" /\ NothingWritten)

\* C25 (amended): when main returns from a run without findings, no artifact
\* has been written, and main returns Ok unless the step that returned is the
\* creation of the cache directory, which comes before the list of
\* repositories is examined.
C25_ZeroFindingsNoArtifacts ==
    [][(MainReturns /\ AllDerives(results_storage') = <<>>)
          => (/\ NothingWritten'
              /\ m_ret' = "ok" \/ (m_ret' = "err" /\ m_pc = "start")
              /\ (m_pc = "start" /\ m_ret' = "ok") => tasks = <<>>
              /\ m_pc # "start" => (m_pc = "aggregated" /\ m_reported'))]_vars

\* C25 witness: repositories were processed and stored, none with a derive
\* statement; main returned Ok and nothing was written.
C25_Witness ==
    /\ m_pc = "returned" /\ m_ret = "ok" /\ m_reported
    /\ Len(results_storage) >= 2 /\ successful = Len(tasks)
    /\ AllDerives(results_storage) = <<>>
    /\ NothingWritten

\* The final artifacts that hold a whole serialization.
SavedArtifacts == {name \in {"json", "csv", "summary"} : artifacts[name] = Written(artifacts[name].content) /\ artifacts[name].written}

\* C26: main reads the store only when the manager has handed out every task,
\* every worker has returned from process and the collector has counted every
\* outcome; from that read on the store does not change; and every final
\* artifact that is saved holds the derive statements of every stored result.
C26_AggregateAfterJoin ==
    [][/\ (m_pc = "processing" /\ m_pc' = "aggregated") =>
             /\ p_next > Len(tasks)
             /\ \A w \in Workers : w_pc[w] = "idle" /\ w_task[w] = 0
             /\ successful + failed = Len(tasks)
             /\ \A t \in DOMAIN tasks : p_outcome[t].status # "pending"
             /\ all_derives' = AllDerives(results_storage)
       /\ m_pc \in {"aggregated", "json_saved", "csv_saved", "returned"} =>
             /\ results_storage' = results_storage
             /\ all_derives' = all_derives
             /\ \A w \in Workers : w_pc'[w] = "idle"
       /\ \A name \in SavedArtifacts' :
             artifacts'[name].content = AllDerives(results_storage')]_vars

\* C26 witness: two workers stored results with derive statements; main
\* returned Ok with the three artifacts holding the derive statements of the
\* whole store.
C26_Witness ==
    /\ m_pc = "returned" /\ m_ret = "ok"
    /\ Len(results_storage) = 3
    /\ results_storage[1].derive_statements # <<>>
    /\ results_storage[3].derive_statements # <<>>
    /\ SavedArtifacts = {"json", "csv", "summary"}
    /\ artifacts.json.content = AllDerives(results_storage)
    /\ Len(artifacts.json.content) = 6

\* Sequence a is an initial segment of sequence b.
IsPrefix(a, b) == Len(a) <= Len(b) /\ SubSeq(b, 1, Len(a)) = a

\* The checkpoint file holds a whole serialization.
CheckpointWhole == checkpoint.written /\ ~checkpoint.torn

\* C29: appends and checkpoint writes happen one worker at a time, in one
\* step each: every checkpoint write is handed the derive statements of the
\* whole store as the append left it, which extend those handed to the write
\* before; a checkpoint that is written holds exactly them, extends the
\* checkpoint it replaces and is at all times the flattening of an initial
\* part of the store.
C29_CheckpointsSerialized ==
    [][/\ Cardinality({w \in Workers : StoreStep(w)}) <= 1
       /\ (results_storage' # results_storage \/ ckpt_attempts' # ckpt_attempts
           \/ checkpoint' # checkpoint) =>
             \E w \in Workers :
                 StoreStep(w) /\ results_storage' = Append(results_storage, w_result[w])
       /\ ckpt_attempts' # ckpt_attempts =>
             /\ ckpt_attempts' = ckpt_attempts + 1
             /\ ckpt_last' = AllDerives(results_storage')
             /\ IsPrefix(ckpt_last, ckpt_last')
       /\ (checkpoint' # checkpoint /\ CheckpointWhole') =>
             /\ checkpoint'.content = AllDerives(results_storage')
             /\ CheckpointWhole => IsPrefix(checkpoint.content, checkpoint'.content)
       /\ CheckpointWhole' =>
             \E n \in 1 .. Len(results_storage') :
                 checkpoint'.content = AllDerives(SubSeq(results_storage', 1, n))]_vars

\* C29 witness: two tasks, handed to the two workers, stored results with
\* derive statements; two checkpoints were written one after the other, and
\* the one on disk holds the derive statements of both results.
C29_Witness ==
    /\ ckpt_attempts = 2
    /\ Len(results_storage) = 2
    /\ results_storage[1].derive_statements # <<>>
    /\ results_storage[2].derive_statements # <<>>
    /\ checkpoint = Written(AllDerives(results_storage))
    /\ p_next = 3 /\ \A w \in Workers : w_pc[w] = "idle"
    /\ p_outcome[1].status = "ok" /\ p_outcome[2].status = "ok"
    /\ results_storage[1].repo_name = "two_files"
    /\ results_storage[2].repo_name = "two_files"

\* C30: once main has aggregated a store with at least one derive statement,
\* and the checkpoint writes succeeded (the checkpoint holds what the last
\* write was handed), the checkpoint holds the derive statements main
\* aggregated, in the same order, and the full dump, once saved, is the same
\* file content.
C30_SnapshotEqualsFullDump ==
    (/\ m_pc \in {"aggregated", "json_saved", "csv_saved", "returned"}
     /\ all_derives # <<>>
     /\ checkpoint = Written(ckpt_last))
        => (/\ checkpoint.content = all_derives
            /\ "json" \in SavedArtifacts => artifacts.json = checkpoint)

\* C30 witness: three results were stored, the last without derive
\* statements; the full dump was saved and equals the checkpoint.
C30_Witness ==
    /\ m_pc = "returned" /\ m_ret = "ok"
    /\ Len(results_storage) = 3
    /\ results_storage[3].derive_statements = <<>>
    /\ ckpt_attempts = 3
    /\ checkpoint = Written(ckpt_last)
    /\ artifacts.json = checkpoint
    /\ Len(checkpoint.content) = 6

\* C28 (as claimed): the scanner's guard is at least as strict as the
\* pipeline's pre-filter: none of its thresholds on the content's length, on
\* the macro and attribute count and on the opening braces is higher, so a
\* content that the pre-filter flags on one of these is flagged by the guard.
C28_GuardStricterThanPrefilter ==
    /\ ProblemLen <= PrefilterLen
    /\ ProblemMacros <= PrefilterMacros
    /\ ProblemBraces <= PrefilterBraces
    /\ PrefilterSignals(f_content) => is_likely_problematic_file(f_content, f_path)

\* The guard's tests on the signals it shares with the pre-filter (parser.rs
\* lines 185, 190-192 for the opening braces, 197-200).
GuardSignals(content) ==
    \/ TextLen(content.text) + content.bulk.len > ProblemLen
    \/ CountInLines(content.text, "macro_rules!") + CountInLines(content.text, "#[")
         + content.bulk.macros > ProblemMacros
    \/ CountInLines(content.text, "{") + content.bulk.open_braces > ProblemBraces

\* C28 (amended): it is the pre-filter that is at least as strict: none of
\* its thresholds on the content's length, on the macro and attribute count
\* and on the opening braces is higher than the guard's, so a content that
\* the guard flags on one of these is flagged by the pre-filter and takes the
\* text-only route; a file that process_file_safely hands to extract_derives
\* is stopped by the guard only for its closing braces.
C28_PrefilterStricterThanGuard ==
    /\ PrefilterLen <= ProblemLen
    /\ PrefilterMacros <= ProblemMacros
    /\ PrefilterBraces <= ProblemBraces
    /\ GuardSignals(f_content) => PrefilterSignals(f_content)
    /\ (f_route.tier # "not_run" /\ GuardSignals(f_content)) => f_route.tier = "text_only"
    /\ (f_route.tier = "standard" /\ f_route.result.via = "guard") =>
          (~GuardSignals(f_content) /\ f_content.bulk.close_braces > ProblemBraces)

\* C28 witness: a file outside rust-lang/rust/tests that the guard would
\* flag for its macros and attributes went the text-only route.
C28_Witness ==
    /\ f_route.tier = "text_only"
    /\ f_path = "src/lib.rs"
    /\ f_content.bulk = ManyMacros
    /\ GuardSignals(f_content)
    /\ is_likely_problematic_file(f_content, f_path)

\* The occurrences of an identifier in the derive lists of all the findings.
RECURSIVE OccurrencesIn(_, _)
OccurrencesIn(derives, name) ==
    IF derives = <<>> THEN 0
    ELSE Cardinality({p \in DOMAIN Head(derives).derives : Head(derives).derives[p] = name})
         + OccurrencesIn(Tail(derives), name)

\* The findings of a repository.
FindingsOf(derives, repo) ==
    Cardinality({i \in DOMAIN derives : derives[i].repository = repo})

IdentifiersOf(derives) ==
    UNION {{derives[i].derives[p] : p \in DOMAIN derives[i].derives} : i \in DOMAIN derives}
RepositoriesOf(derives) == {derives[i].repository : i \in DOMAIN derives}

\* A table lists distinct keys, each with its count, largest count first; it
\* has TopN rows, or all the keys when there are fewer, and no key left out
\* has a larger count than a listed one.
TopTable(table, keys, Count(_)) ==
    /\ Len(table) = Min(TopN, Cardinality(keys))
    /\ \A i \in DOMAIN table :
           /\ table[i][1] \in keys
           /\ table[i][2] = Count(table[i][1])
           /\ \A j \in DOMAIN table :
                  i < j => (table[i][2] >= table[j][2] /\ table[i][1] # table[j][1])
    /\ \A k \in keys \ {table[i][1] : i \in DOMAIN table} :
           \A i \in DOMAIN table : Count(k) <= table[i][2]

\* C27: the summary save_summary writes lists in most_common_derives each
\* identifier with its occurrences over all the findings and in
\* repositories_by_derive_count each repository with its findings, both with
\* the largest count first and cut to the 20 largest counts; and
\* total_derive_statements is the number of findings.
C27_SummaryTables ==
    u_summary.status = "saved" =>
        LET summary == u_summary.summary
        IN  /\ TopTable(summary.most_common_derives, IdentifiersOf(u_derives),
                        LAMBDA k : OccurrencesIn(u_derives, k))
            /\ TopTable(summary.repositories_by_derive_count, RepositoriesOf(u_derives),
                        LAMBDA k : FindingsOf(u_derives, k))
            /\ summary.total_derive_statements = Len(u_derives)

\* C27 witness: more than 20 identifiers and more than 20 repositories with
\* different counts; both tables have 20 rows, Clone leads the first with
\* more occurrences than findings, and the second starts with a repository
\* of the most findings and ends with one of fewer.
C27_Witness ==
    /\ u_summary.status = "saved"
    /\ u_summary.summary.total_unique_derives > TopN
    /\ u_summary.summary.total_repositories > TopN
    /\ Len(u_summary.summary.most_common_derives) = TopN
    /\ Len(u_summary.summary.repositories_by_derive_count) = TopN
    /\ u_summary.summary.most_common_derives[1][1] = "Clone"
    /\ u_summary.summary.most_common_derives[1][2] > Len(u_derives)
    /\ u_summary.summary.repositories_by_derive_count[1][2] = MaxPerRepo
    /\ u_summary.summary.repositories_by_derive_count[TopN][2] < MaxPerRepo
    /\ u_order.repos = "evens_first"

\* The sum of the counts of a table.
RECURSIVE SumCounts(_)
SumCounts(table) == IF table = <<>> THEN 0 ELSE Head(table)[2] + SumCounts(Tail(table))

\* The identifiers written in all the findings, repetitions included.
RECURSIVE TotalIdentifiers(_)
TotalIdentifiers(derives) ==
    IF derives = <<>> THEN 0 ELSE Len(Head(derives).derives) + TotalIdentifiers(Tail(derives))

\* C38: in the summary total_repositories is the number of distinct
\* repositories among the findings and total_unique_derives the number of
\* distinct identifiers; the counts of all the identifiers add up to the
\* number of identifiers written in all the findings, and so do the rows of
\* most_common_derives when no identifier is cut off.
C38_SummaryTotals ==
    u_summary.status = "saved" =>
        LET summary == u_summary.summary
            counts == CountLoop(u_derives, EmptyCounts)
        IN  /\ summary.total_repositories = Cardinality(RepositoriesOf(u_derives))
            /\ summary.total_unique_derives = Cardinality(IdentifiersOf(u_derives))
            /\ SumCounts(DeriveEntries(u_order.derives, counts.derive_counts))
                  = TotalIdentifiers(u_derives)
            /\ summary.total_unique_derives <= TopN =>
                  SumCounts(summary.most_common_derives) = TotalIdentifiers(u_derives)

\* C38 witness: three repositories with six findings between them and four
\* identifiers, one of them written twice in one finding.
C38_Witness ==
    /\ u_summary.status = "saved"
    /\ Len(u_derives) = 6
    /\ u_summary.summary.total_repositories = 3
    /\ u_summary.summary.total_unique_derives = 4
    /\ TotalIdentifiers(u_derives) > 2 * Len(u_derives)
    /\ SumCounts(u_summary.summary.most_common_derives) = TotalIdentifiers(u_derives)

\* C33: search_rust_repositories is well defined for limit = 0: per_page and
\* max_pages are computed without a division by zero or an unsigned underflow,
\* and the call returns an empty list without sending any request.
C33_LimitZeroWellDefined ==
    (s_limit = 0 /\ s_pc # "call") =>
        /\ s_pc = "ok"
        /\ repositories = <<>>
        /\ s_request = NoRequest

\* Lines 148, 96-97, 107-108, 114-115: whether one sleep is within the backoff
\* cap of 2^6 seconds; the jitter of up to one half (lines 7-10) is left out
\* on both sides.  The sleep between pages is given in milliseconds.
WithinBackoffCap(sl) ==
    IF sl.why = "interpage" THEN sl.base <= Pow2(BackoffCap) * 1000
    ELSE sl.base <= Pow2(BackoffCap)

\* Lines 65-152: a call with a limit above zero comes to its return, with the
\* descriptors (line 152) or with an error (lines 84, 101, 122).
DiscoveryTerminates == (s_pc = "call" /\ s_limit > 0) ~> (s_pc \in {"ok", "err"})

\* C31: discovery terminates (descriptors or an error) when every page is
\* eventually answered with a status other than 403/429, and each single wait
\* on the way is bounded by the backoff cap.
C31_TerminatesWithCappedWaits ==
    /\ DiscoveryTerminates
    /\ [](\A i \in DOMAIN s_sleep : WithinBackoffCap(s_sleep[i]))

\* C32: ensure_repository terminates for every cache configuration and state,
\* max_repositories = 0 with an empty cache included: each iteration of the
\* count-eviction loop of make_space_if_needed strictly reduces the number of
\* mapped entries, or the loop exits after it.
C32_CountLoopMakesProgress ==
    [][CountEvict =>
          \/ Cardinality(DOMAIN active_repos') < Cardinality(DOMAIN active_repos)
          \/ ~(Cardinality(DOMAIN active_repos') >= max_repositories')]_vars

\* C34: distinct repository keys map to distinct target directories under the
\* cache root, so two different repositories (a/b_c and a_b/c, say) never
\* share, reuse or overwrite one clone directory.
C34_DistinctKeysDistinctDirectories ==
    \A k1 \in DOMAIN active_repos : \A k2 \in DOMAIN active_repos :
        k1 # k2 => active_repos[k1] # active_repos[k2]

\* A worker is cloning into the key's directory or scanning it.
BusyInDirectory(w) == x_pc[w] \in {"cloning", "scan"}

\* C35: when two workers process tasks for the same repository key at the
\* same time, neither deletes the directory, nor starts a clone over it, while
\* the other is cloning into it or scanning it.
C35_SameKeyWorkersDoNotInterfere ==
    [][\A w \in Workers : \A v \in Workers \ {w} :
          BusyInDirectory(w) =>
              /\ ~(CloneRemove(v) /\ x_dir # "absent" /\ x_dir' = "absent")
              /\ ~(CloneSpawn(v) /\ x_pc'[v] = "cloning")]_vars

\* C36: in RustFileProcessor, the path that ensure_repository returned for a
\* task stays on disk until the task has enumerated and read its files: no
\* other worker's eviction deletes it in between.
C36_ReturnedPathStaysOnDisk ==
    \A w \in Workers : h_pc[w] \in {"ensured", "found"} => h_path[w] \in h_disk

\* A text whose lines are derive attributes of plain identifiers, each on one
\* line, items they are attached to, and blank lines.
PlainDeriveText(lines) ==
    \A i \in DOMAIN lines :
        lines[i] \in {AttrLine(a[1], a[2]) : a \in PlainAttrs}
                     \cup StructLines \cup {"", "pub enum E { A }"}

\* C37: for a content that parses and whose derive attributes are all on one
\* line each, attached to top-level struct/enum/union items and made of plain
\* identifiers, extract_derives (structured tier) and
\* extract_derives_text_only return the same ordered list of findings,
\* line_number and full_line included, also with several derive attributes on
\* different lines.
C37_TiersAgreeOnPlainDerives ==
    (/\ PlainDeriveText(r_content.text)
     /\ r_content.bulk = NoBulk
     /\ r_extract.status = "returned"
     /\ r_extract.via = "structured"
     /\ r_text_only.status = "returned")
        => r_extract.derives = r_text_only.derives

=============================================================================
